---- MODULE Spec2Model ----
(***************************************************************************)
(* Model of the finance dashboard's storage layer (db.js), its scraper     *)
(* entry point and the queries built on it: the SQLite tables, the write   *)
(* operations on them, the Israeli-month attribution, the monthly and      *)
(* yearly summaries and the budget derivation.                             *)
(*                                                                         *)
(* Conventions of the model                                                *)
(*  - A date is the TEXT 'YYYY-MM-DD' the store holds.  It is modelled by   *)
(*    its three zero-padded fields <<y, m, d>>; SQL compares dates as text, *)
(*    which for fixed-width fields is the lexicographic order TextLE, and   *)
(*    new Date(text) reads the fields back (getFullYear, getMonth() + 1,    *)
(*    getDate) in a process time zone at or east of UTC, the deployment    *)
(*    the scraper's own local-date formatting is written for.              *)
(*  - A description is a sequence of symbols; String.includes is the       *)
(*    contiguous-subsequence test Includes.  The Hebrew patterns of the    *)
(*    source are written in transliteration, one symbol per word.          *)
(*  - NULL stands for SQL NULL / JS null and undefined in TEXT columns.    *)
(*  - Amounts are integers (agorot).                                       *)
(***************************************************************************)
EXTENDS Integers, Sequences, FiniteSets, TLC

VARIABLES transactions, categories, category_rules, settings, call, ret

vars == <<transactions, categories, category_rules, settings, call, ret>>

store == <<transactions, categories, category_rules, settings>>

NULL == "NULL"

EMPTY == ""

\* JS undefined as a return value, and a thrown error reaching the caller.
UNDEFINED == "undefined"

THROWN == "error"

NoCall == [op |-> "none", year |-> 0, month |-> 0, categoryId |-> NULL]

\* The last operation served, a write named without its arguments.
Called(op) == [NoCall EXCEPT !.op = op]

-----------------------------------------------------------------------------
(* Text helpers *)

Range(s) == {s[i] : i \in 1..Len(s)}

\* String.prototype.includes on symbol sequences.
Includes(s, p) ==
    \E i \in 0..(Len(s) - Len(p)) : \A j \in 1..Len(p) : s[i + j] = p[j]

\* String.prototype.toLowerCase: only Latin symbols have a lower-case form.
LowerSymbol(c) == IF c = "CAL" THEN "cal" ELSE IF c = "VISA" THEN "visa" ELSE c

ToLowerCase(s) == [i \in 1..Len(s) |-> LowerSymbol(s[i])]

\* Text order of two 'YYYY-MM-DD' dates.
TextLE(a, b) ==
    \/ a[1] < b[1]
    \/ a[1] = b[1] /\ a[2] < b[2]
    \/ a[1] = b[1] /\ a[2] = b[2] /\ a[3] <= b[3]

\* `${year}-${String(month).padStart(2, '0')}-DD`
DateText(year, month, day) == <<year, month, day>>

\* new Date(text).getFullYear() / getMonth() + 1 / getDate()
getFullYear(date) == date[1]

getMonth1(date) == date[2]

getDate(date) == date[3]

Abs(n) == IF n < 0 THEN -n ELSE n

Max(a, b) == IF a >= b THEN a ELSE b

RECURSIVE SumOver(_, _)
\* Sum of f[x] over the finite set S (a reduce over a list of rows).
SumOver(S, f) ==
    IF S = {} THEN 0
    ELSE LET x == CHOOSE y \in S : TRUE
         IN  f[x] + SumOver(S \ {x}, f)

\* Math.round(sum / n) for sum >= 0 and n > 0: halves round up.
MathRoundDiv(sum, n) == (2 * sum + n) \div (2 * n)

-----------------------------------------------------------------------------
(* Pattern lists *)

TRANSFER_PATTERNS == { <<"kartisei", "ashrai", "l">> }

SALARY_PATTERNS ==
    { <<"maskoret">>, <<"sachar">>, <<"zikui", "miLeumi">>, <<"haavarat", "maskoret">> }

CREDIT_CARD_PATTERNS ==
    { <<"mastercard">>, <<"viza">>, <<"kartisei", "ashrai">>, <<"isracard">>,
      <<"american", "express">>, <<"diners">>, <<"leumi", "card">> }

isTransfer(description) ==
    IF description = <<>> THEN FALSE
    ELSE LET lower == ToLowerCase(description)
         IN  \E p \in TRANSFER_PATTERNS :
                 Includes(description, p) \/ Includes(lower, ToLowerCase(p))

isSalaryTransaction_NoSign(description, amount) ==
    IF description = <<>> THEN FALSE
    ELSE \E p \in SALARY_PATTERNS : Includes(description, p)

isSalaryTransaction(description, amount) ==
    IF amount <= 0 THEN FALSE
    ELSE IF description = <<>> THEN FALSE
    ELSE \E p \in SALARY_PATTERNS : Includes(description, p)

isCreditCardTransaction(description) ==
    IF description = <<>> THEN FALSE
    ELSE \E p \in CREDIT_CARD_PATTERNS : Includes(description, p)

-----------------------------------------------------------------------------
(* Rows of the transactions table *)

\* A row as INSERT leaves it: the flag columns at their column defaults.
NewRow(id, date, amount, description, memo, account, is_transfer, now) ==
    [ id |-> id, date |-> date, amount |-> amount, description |-> description,
      memo |-> memo, account |-> account,
      type |-> IF amount > 0 THEN "income" ELSE "expense",
      is_transfer |-> is_transfer, scraped_at |-> now,
      category_id |-> NULL, is_investment |-> 0, user_comment |-> NULL,
      is_occasional_income |-> 0 ]

\* A row of the categories table with the default colour.
DEFAULT_COLOR == "#6366f1"

CategoryRow(id, name) == [id |-> id, name |-> name, color |-> DEFAULT_COLOR]

-----------------------------------------------------------------------------
(* Month attribution *)

BILL_CUTOFF_DAY == 3

EARLY_WINDOW_DAY == 10

nextMonthOf_NoWrap(month) == month + 1

nextMonthOf(month) == IF month + 1 > 12 THEN 1 ELSE month + 1

nextYearOf_NoWrap(year, month) == year

nextYearOf(year, month) == IF month + 1 > 12 THEN year + 1 ELSE year

\* The rows the function returns (their order is ORDER BY date DESC, below).
getTransactionsByIsraeliMonth(year, month) ==
    LET monthStart == DateText(year, month, 1)
        nextMonth  == nextMonthOf(month)
        nextYear   == nextYearOf(year, month)
        earlyNextMonthEnd == DateText(nextYear, nextMonth, EARLY_WINDOW_DAY)
        allTransactions ==
            { txn \in transactions :
                TextLE(monthStart, txn.date) /\ TextLE(txn.date, earlyNextMonthEnd) }
        keep(txn) ==
            LET txnMonth == getMonth1(txn.date)
                txnDay   == getDate(txn.date)
                txnYear  == getFullYear(txn.date)
                isTargetMonth == txnYear = year /\ txnMonth = month
                isEarlyNextMonth ==
                    \/ txnYear = nextYear /\ txnMonth = nextMonth
                         /\ txnDay <= BILL_CUTOFF_DAY
                    \/ nextMonth = 1 /\ txnYear = nextYear /\ txnMonth = 1
                         /\ txnDay <= BILL_CUTOFF_DAY
                isSalary == isSalaryTransaction(txn.description, txn.amount)
                isCC     == isCreditCardTransaction(txn.description)
            IN  IF isTargetMonth
                THEN IF txnDay <= BILL_CUTOFF_DAY THEN ~isSalary /\ ~isCC ELSE TRUE
                ELSE IF isEarlyNextMonth THEN isSalary \/ isCC
                ELSE FALSE
    IN  { txn \in allTransactions : keep(txn) }

RECURSIVE OrderByDateDesc(_)
\* Every list of the rows S that ORDER BY date DESC may return (ties in any order).
OrderByDateDesc(S) ==
    IF S = {} THEN { <<>> }
    ELSE UNION { { <<x>> \o rest : rest \in OrderByDateDesc(S \ {x}) } :
                 x \in { r \in S : \A o \in S : TextLE(o.date, r.date) } }

-----------------------------------------------------------------------------
(* Monthly and yearly summaries *)

bucketOf_InvestmentFirst(txn) ==
    IF txn.is_investment # 0 THEN "investments"
    ELSE IF txn.is_transfer # 0 THEN "transfers"
    ELSE "transactions"

\* The list a row of the month is pushed to.
bucketOf(txn) ==
    IF txn.is_transfer # 0 THEN "transfers"
    ELSE IF txn.is_investment # 0 THEN "investments"
    ELSE "transactions"

\* txn.category_id || 'uncategorized'
categoryKey(txn) ==
    IF txn.category_id = NULL \/ txn.category_id = EMPTY
    THEN "uncategorized" ELSE txn.category_id

\* Sum of the amounts of the rows of S that are > 0.
incomeOf(S) == SumOver(S, [t \in S |-> IF t.amount > 0 THEN t.amount ELSE 0])

\* Sum of Math.abs(amount) of the rows of S that are not > 0.
expensesOf(S) == SumOver(S, [t \in S |-> IF t.amount > 0 THEN 0 ELSE Abs(t.amount)])

absTotalOf(S) == SumOver(S, [t \in S |-> Abs(t.amount)])

\* Lists of rows are kept as sets of rows: rows are distinct by id and every
\* consumer of these lists sums over them or tests membership.
summaryOf(year, month, allTransactions) ==
    LET counted     == { t \in allTransactions : bucketOf(t) = "transactions" }
        transfers   == { t \in allTransactions : bucketOf(t) = "transfers" }
        investments == { t \in allTransactions : bucketOf(t) = "investments" }
        income      == incomeOf(counted)
        expenses    == expensesOf(counted)
        transfersIn  == incomeOf(transfers)
        transfersOut == expensesOf(transfers)
        keys == { categoryKey(t) : t \in counted }
        byCategory ==
            [ k \in keys |->
                LET rows == { t \in counted : categoryKey(t) = k }
                IN  [ income |-> incomeOf(rows), expenses |-> expensesOf(rows),
                      transactions |-> rows ] ]
    IN  [ year |-> year, month |-> month,
          income |-> income, expenses |-> expenses, balance |-> income - expenses,
          transfersIn |-> transfersIn, transfersOut |-> transfersOut,
          transfersNet |-> transfersIn - transfersOut,
          investmentTotal |-> absTotalOf(investments),
          transactionCount |-> Cardinality(counted),
          transactions |-> counted, transfers |-> transfers,
          investments |-> investments, byCategory |-> byCategory ]

getMonthlySummary(year, month) ==
    summaryOf(year, month, getTransactionsByIsraeliMonth(year, month))

belongsToYear_NoShift(txn) == getFullYear(txn.date)

\* The Israeli year a row counts for.
belongsToYear(txn) ==
    LET txnYear  == getFullYear(txn.date)
        txnMonth == getMonth1(txn.date)
        txnDay   == getDate(txn.date)
        isEarlyJan == txnMonth = 1 /\ txnDay <= 3
    IN  IF isEarlyJan
        THEN IF isSalaryTransaction(txn.description, txn.amount)
                  \/ isCreditCardTransaction(txn.description)
             THEN txnYear - 1
             ELSE txnYear
        ELSE txnYear

getYearToDateSummary(year) ==
    LET earlyThisYear == DateText(year, 1, 1)
        endDate       == DateText(year + 1, 1, 3)
        allTxns ==
            { t \in transactions :
                TextLE(earlyThisYear, t.date) /\ TextLE(t.date, endDate)
                    /\ t.is_transfer = 0 }
        mine        == { t \in allTxns : belongsToYear(t) = year }
        investments == { t \in mine : t.is_investment # 0 }
        rest        == mine \ investments
        income      == incomeOf(rest)
        expenses    == expensesOf(rest)
    IN  [ year |-> year, income |-> income, expenses |-> expenses,
          balance |-> income - expenses,
          investmentTotal |-> absTotalOf(investments),
          transactionCount |-> Cardinality(mine) ]

-----------------------------------------------------------------------------
(* Settings *)

\* A settings value is TEXT.  String(n) of an integer n is the numeric text
\* NumText(n); String(undefined) and other non-numeric texts are OtherText.
NumText(n) == [num |-> TRUE, n |-> n]

OtherText == [num |-> FALSE, n |-> 0]

\* parseInt(text) || 0
parseIntOrZero(text) == IF text.num THEN text.n ELSE 0

SAVINGS_GOAL_KEY == <<"savings_goal">>

EXPECTED_INCOME_KEY == <<"expected_income">>

\* `savings_goal_${year}_${month}`
monthKeyOf(year, month) == <<"savings_goal", year, month>>

hasSetting(key) == \E row \in settings : row.key = key

\* getSetting(key, defaultValue) when the key is stored.
getSetting(key) == (CHOOSE row \in settings : row.key = key).value

getSavingsGoal_DefaultOnly(year, month) ==
    IF hasSetting(SAVINGS_GOAL_KEY)
    THEN parseIntOrZero(getSetting(SAVINGS_GOAL_KEY))
    ELSE 0

\* getSavingsGoal(year, month); 0 stands for an argument left out.
getSavingsGoal(year, month) ==
    IF year # 0 /\ month # 0 /\ hasSetting(monthKeyOf(year, month))
    THEN parseIntOrZero(getSetting(monthKeyOf(year, month)))
    ELSE IF hasSetting(SAVINGS_GOAL_KEY)
         THEN parseIntOrZero(getSetting(SAVINGS_GOAL_KEY))
         ELSE 0

getDefaultSavingsGoal ==
    IF hasSetting(SAVINGS_GOAL_KEY) THEN parseIntOrZero(getSetting(SAVINGS_GOAL_KEY)) ELSE 0

getExpectedIncome ==
    IF hasSetting(EXPECTED_INCOME_KEY)
    THEN parseIntOrZero(getSetting(EXPECTED_INCOME_KEY)) ELSE 0

-----------------------------------------------------------------------------
(* Averages and the available budget *)

NUM_MONTHS == 3

VARIABLE_EXPENSES_NAME == "hotzaot mishtanot"

\* month--; if (month < 1) { month = 12; year--; }
previousMonth(ym) == IF ym[2] - 1 < 1 THEN <<ym[1] - 1, 12>> ELSE <<ym[1], ym[2] - 1>>

RECURSIVE monthsBack(_, _, _)
\* The months the loop of numMonths iterations visits, in order.
monthsBack(year, month, numMonths) ==
    IF numMonths = 0 THEN <<>>
    ELSE LET prev == previousMonth(<<year, month>>)
         IN  <<prev>> \o monthsBack(prev[1], prev[2], numMonths - 1)

RECURSIVE SumSeq(_)
SumSeq(s) == IF s = <<>> THEN 0 ELSE Head(s) + SumSeq(Tail(s))

averageOfAll(totals) ==
    IF Len(totals) = 0 THEN 0 ELSE MathRoundDiv(SumSeq(totals), Len(totals))

\* totals.filter(t => t > 0), then Math.round(sum / length), or 0 for none.
averageOfNonZero(totals) ==
    LET nonZeroTotals == SelectSeq(totals, LAMBDA t : t > 0)
    IN  IF Len(nonZeroTotals) = 0 THEN 0
        ELSE MathRoundDiv(SumSeq(nonZeroTotals), Len(nonZeroTotals))

categoryTotal(categoryId, year, month) ==
    LET summary == getMonthlySummary(year, month)
    IN  IF categoryId \in DOMAIN summary.byCategory
        THEN summary.byCategory[categoryId].expenses
        ELSE 0

getCategoryAverage(categoryId, currentYear, currentMonth, numMonths) ==
    LET months == monthsBack(currentYear, currentMonth, numMonths)
        totals == [i \in 1..Len(months) |->
                      categoryTotal(categoryId, months[i][1], months[i][2])]
    IN  averageOfNonZero(totals)

\* averages[cat.id] for every category, and averages['uncategorized'].
getAllCategoryAverages(currentYear, currentMonth) ==
    [ k \in { c.id : c \in categories } \cup { "uncategorized" } |->
        getCategoryAverage(k, currentYear, currentMonth, NUM_MONTHS) ]

regularIncomeOf_WithOccasional(rows) == incomeOf(rows)

\* Sum of the positive amounts of the rows not flagged occasional.
regularIncomeOf(rows) ==
    incomeOf({ t \in rows : t.is_occasional_income = 0 })

occasionalIncomeOf(rows) ==
    incomeOf({ t \in rows : t.is_occasional_income # 0 })

getRegularIncomeForMonth(year, month) ==
    regularIncomeOf(getMonthlySummary(year, month).transactions)

getOccasionalIncomeForMonth(year, month) ==
    occasionalIncomeOf(getMonthlySummary(year, month).transactions)

getAverageRegularIncome(currentYear, currentMonth, numMonths) ==
    LET months  == monthsBack(currentYear, currentMonth, numMonths)
        regular == [i \in 1..Len(months) |->
                      getRegularIncomeForMonth(months[i][1], months[i][2])]
        incomes == SelectSeq(regular, LAMBDA r : r > 0)
    IN  IF Len(incomes) = 0 THEN 0
        ELSE MathRoundDiv(SumSeq(incomes), Len(incomes))

expectedRegularIncomeOf_NoOverride(actualRegular, userExpected, averageRegular) ==
    Max(actualRegular, averageRegular)

expectedRegularIncomeOf_OverrideWins(actualRegular, userExpected, averageRegular) ==
    IF userExpected > 0 THEN userExpected ELSE Max(actualRegular, averageRegular)

\* Math.max(actualRegularIncome, userExpectedIncome, averageRegularIncome)
expectedRegularIncomeOf(actualRegular, userExpected, averageRegular) ==
    Max(Max(actualRegular, userExpected), averageRegular)

variableCategoryIdOf_None == NULL

\* getCategories().find(c => c.name === ...): its id, or null.
variableCategoryIdOf ==
    IF \E c \in categories : c.name = VARIABLE_EXPENSES_NAME
    THEN (CHOOSE c \in categories : c.name = VARIABLE_EXPENSES_NAME).id
    ELSE NULL

\* The arithmetic of calculateAvailableBudget on the values it has read.
budgetOf(summary, averages, savingsGoal, actualRegularIncome, userExpectedIncome, averageRegularIncome, actualOccasionalIncome, variableCategoryId) ==
    LET expectedRegularIncome ==
            expectedRegularIncomeOf(actualRegularIncome, userExpectedIncome,
                                    averageRegularIncome)
        expectedIncome == expectedRegularIncome + actualOccasionalIncome
        by == summary.byCategory
        fixedKeys == { k \in DOMAIN by : k # variableCategoryId }
        fixedExpenses ==
            SumOver(fixedKeys,
                    [k \in fixedKeys |->
                        Max(by[k].expenses,
                            IF k \in DOMAIN averages THEN averages[k] ELSE 0)])
        variableActual ==
            IF variableCategoryId \in DOMAIN by THEN by[variableCategoryId].expenses ELSE 0
        availableForVariable == expectedIncome - savingsGoal - fixedExpenses
        remainingForVariable == availableForVariable - variableActual
    IN  [ income |-> expectedIncome, actualIncome |-> summary.income,
          expectedIncome |-> expectedIncome,
          expectedRegularIncome |-> expectedRegularIncome,
          actualRegularIncome |-> actualRegularIncome,
          actualOccasionalIncome |-> actualOccasionalIncome,
          userExpectedIncome |-> userExpectedIncome,
          averageIncome |-> averageRegularIncome,
          savingsGoal |-> savingsGoal, fixedExpenses |-> fixedExpenses,
          availableForVariable |-> availableForVariable,
          variableActual |-> variableActual,
          remainingForVariable |-> remainingForVariable ]

calculateAvailableBudget(year, month) ==
    budgetOf(getMonthlySummary(year, month),
             getAllCategoryAverages(year, month),
             getSavingsGoal(year, month),
             getRegularIncomeForMonth(year, month),
             getExpectedIncome,
             getAverageRegularIncome(year, month, NUM_MONTHS),
             getOccasionalIncomeForMonth(year, month),
             variableCategoryIdOf)

-----------------------------------------------------------------------------
(* Write operations *)

\* The NULL of a date column (a record scraped without a date).
NoDate == <<>>

\* x || ''
textOrEmpty(x) == IF x = NULL THEN EMPTY ELSE x

\* x || null
textOrNull(x) == IF x = EMPTY THEN NULL ELSE x

\* flag ? 1 : 0
bit(flag) == IF flag THEN 1 ELSE 0

\* date TEXT NOT NULL (amounts of the model are always numbers).
violatesNotNull(txn) == txn.date = NoDate

updateRow_Replace(row, txn, account, now) ==
    NewRow(txn.id, txn.date, txn.amount, txn.description, textOrEmpty(txn.memo),
           account, bit(isTransfer(txn.description)), now)

updateRow_Redetect(row, txn, account, now) ==
    [ row EXCEPT !.date = txn.date, !.amount = txn.amount,
                 !.description = txn.description, !.memo = textOrEmpty(txn.memo),
                 !.account = account,
                 !.type = IF txn.amount > 0 THEN "income" ELSE "expense",
                 !.is_transfer = bit(isTransfer(txn.description)),
                 !.scraped_at = now ]

\* updateStmt: the columns of its SET clause, the others as they are.
updateRow(row, txn, account, now) ==
    [ row EXCEPT !.date = txn.date, !.amount = txn.amount,
                 !.description = txn.description, !.memo = textOrEmpty(txn.memo),
                 !.account = account,
                 !.type = IF txn.amount > 0 THEN "income" ELSE "expense",
                 !.scraped_at = now ]

\* One iteration of the loop of upsertMany on the table `rows`.
upsertOne(rows, txn, account, now) ==
    IF \E existing \in rows : existing.id = txn.id
    THEN { IF row.id = txn.id THEN updateRow(row, txn, account, now) ELSE row :
             row \in rows }
    ELSE rows \cup
           { NewRow(txn.id, txn.date, txn.amount, txn.description,
                    textOrEmpty(txn.memo), account,
                    bit(isTransfer(txn.description)), now) }

RECURSIVE upsertMany(_, _, _, _)
\* db.transaction: the table after the whole batch, or ok = FALSE when a
\* statement threw, which rolls every write of the batch back.
upsertMany(rows, txns, account, now) ==
    IF txns = <<>> THEN [ok |-> TRUE, rows |-> rows]
    ELSE IF violatesNotNull(Head(txns)) THEN [ok |-> FALSE, rows |-> rows]
    ELSE upsertMany(upsertOne(rows, Head(txns), account, now), Tail(txns), account, now)

upsertTransactions_NoRollback(txns, account, now) ==
    LET result == upsertMany(transactions, txns, account, now)
    IN  /\ call' = Called("upsertTransactions")
        /\ transactions' = result.rows
        /\ ret' = IF result.ok THEN Len(txns) ELSE THROWN
        /\ UNCHANGED <<categories, category_rules, settings>>

upsertTransactions(txns, account, now) ==
    LET result == upsertMany(transactions, txns, account, now)
    IN  /\ call' = Called("upsertTransactions")
        /\ transactions' = IF result.ok THEN result.rows ELSE transactions
        /\ ret' = IF result.ok THEN Len(txns) ELSE THROWN
        /\ UNCHANGED <<categories, category_rules, settings>>

\* UPDATE transactions SET <column> = value WHERE id = transactionId
setColumn(rows, transactionId, column, value) ==
    { IF row.id = transactionId THEN [row EXCEPT ![column] = value] ELSE row :
        row \in rows }

setTransactionTransfer(transactionId, flag) ==
    /\ transactions' = setColumn(transactions, transactionId, "is_transfer", bit(flag))
    /\ ret' = UNDEFINED
    /\ call' = Called("setTransactionTransfer")
    /\ UNCHANGED <<categories, category_rules, settings>>

redetectTransfers ==
    /\ transactions' =
         { [row EXCEPT !.is_transfer = bit(isTransfer(row.description))] :
             row \in transactions }
    /\ ret' = Cardinality(transactions)
    /\ call' = Called("redetectTransfers")
    /\ UNCHANGED <<categories, category_rules, settings>>

setTransactionInvestment(transactionId, flag) ==
    /\ transactions' =
         setColumn(setColumn(transactions, transactionId, "is_investment", bit(flag)),
                   transactionId, "is_transfer", 0)
    /\ ret' = UNDEFINED
    /\ call' = Called("setTransactionInvestment")
    /\ UNCHANGED <<categories, category_rules, settings>>

setTransactionOccasionalIncome(transactionId, flag) ==
    /\ transactions' =
         setColumn(transactions, transactionId, "is_occasional_income", bit(flag))
    /\ ret' = UNDEFINED
    /\ call' = Called("setTransactionOccasionalIncome")
    /\ UNCHANGED <<categories, category_rules, settings>>

setTransactionComment(transactionId, comment) ==
    /\ transactions' =
         setColumn(transactions, transactionId, "user_comment", textOrNull(comment))
    /\ ret' = UNDEFINED
    /\ call' = Called("setTransactionComment")
    /\ UNCHANGED <<categories, category_rules, settings>>

excludeAllInMonth_Calendar(year, month) ==
    LET toExclude == { t \in transactions :
                         getFullYear(t.date) = year /\ getMonth1(t.date) = month
                            /\ t.is_transfer = 0 }
    IN  /\ transactions' =
             { IF row \in toExclude THEN [row EXCEPT !.is_transfer = 1] ELSE row :
                 row \in transactions }
        /\ ret' = Cardinality(toExclude)
        /\ call' = Called("excludeAllInMonth")
        /\ UNCHANGED <<categories, category_rules, settings>>

excludeAllInMonth(year, month) ==
    LET toExclude == { t \in getTransactionsByIsraeliMonth(year, month) :
                         t.is_transfer = 0 }
    IN  /\ transactions' =
             { IF row \in toExclude THEN [row EXCEPT !.is_transfer = 1] ELSE row :
                 row \in transactions }
        /\ ret' = Cardinality(toExclude)
        /\ call' = Called("excludeAllInMonth")
        /\ UNCHANGED <<categories, category_rules, settings>>

(* Categories and rules *)

\* better-sqlite3 opens the database with foreign keys enforced, so
\* category_rules.category_id must name a row of categories;
\* transactions.category_id is a plain column with no such constraint.
FOREIGN_KEYS == TRUE

createCategory_NoUnique(id, name) ==
    /\ id \notin { c.id : c \in categories }
    /\ ret' = CategoryRow(id, name)
    /\ categories' = categories \cup { CategoryRow(id, name) }
    /\ call' = Called("createCategory")
    /\ UNCHANGED <<transactions, category_rules, settings>>

createCategory(id, name) ==
    /\ id \notin { c.id : c \in categories }
    /\ IF \E c \in categories : c.name = name
       THEN /\ ret' = THROWN
            /\ UNCHANGED categories
       ELSE /\ ret' = CategoryRow(id, name)
            /\ categories' = categories \cup { CategoryRow(id, name) }
    /\ call' = Called("createCategory")
    /\ UNCHANGED <<transactions, category_rules, settings>>

deleteCategory_KeepRules(id) ==
    /\ call' = Called("deleteCategory")
    /\ transactions' =
         { IF row.category_id = id THEN [row EXCEPT !.category_id = NULL] ELSE row :
             row \in transactions }
    /\ categories' = { c \in categories : c.id # id }
    /\ ret' = UNDEFINED
    /\ UNCHANGED <<category_rules, settings>>

deleteCategory(id) ==
    /\ call' = Called("deleteCategory")
    /\ transactions' =
         { IF row.category_id = id THEN [row EXCEPT !.category_id = NULL] ELSE row :
             row \in transactions }
    /\ category_rules' = { r \in category_rules : r.category_id # id }
    /\ categories' = { c \in categories : c.id # id }
    /\ ret' = UNDEFINED
    /\ UNCHANGED settings

isUncategorized(row) == row.category_id = NULL \/ row.category_id = EMPTY

\* INSERT ... ON CONFLICT(description_pattern) DO UPDATE SET category_id = ?
upsertRule(rules, description, categoryId) ==
    { r \in rules : r.description_pattern # description }
        \cup { [description_pattern |-> description, category_id |-> categoryId] }

cascadeRule_All(rows, description, categoryId) ==
    { IF row.description = description
      THEN [row EXCEPT !.category_id = categoryId] ELSE row : row \in rows }

\* UPDATE transactions SET category_id = ? WHERE description = ? AND
\* (category_id IS NULL OR category_id = '')
cascadeRule(rows, description, categoryId) ==
    { IF row.description = description /\ isUncategorized(row)
      THEN [row EXCEPT !.category_id = categoryId] ELSE row : row \in rows }

deleteRule_Keep(rules, description) == rules

\* DELETE FROM category_rules WHERE description_pattern = ?
deleteRule(rules, description) ==
    { r \in rules : r.description_pattern # description }

setTransactionCategory(transactionId, categoryId) ==
    LET updated == setColumn(transactions, transactionId, "category_id", categoryId)
        found   == \E row \in updated : row.id = transactionId
        txn     == CHOOSE row \in updated : row.id = transactionId
        truthy  == categoryId # NULL /\ categoryId # EMPTY
    IN  /\ call' = Called("setTransactionCategory")
        /\ UNCHANGED <<categories, settings>>
        /\ IF found /\ txn.description # <<>> /\ truthy
           THEN IF FOREIGN_KEYS /\ categoryId \notin { c.id : c \in categories }
                THEN \* the rule INSERT throws; the first UPDATE stays written
                     /\ transactions' = updated
                     /\ UNCHANGED category_rules
                     /\ ret' = THROWN
                ELSE /\ category_rules' =
                          upsertRule(category_rules, txn.description, categoryId)
                     /\ transactions' = cascadeRule(updated, txn.description, categoryId)
                     /\ ret' = UNDEFINED
           ELSE IF ~truthy /\ found /\ txn.description # <<>>
           THEN /\ transactions' = updated
                /\ category_rules' = deleteRule(category_rules, txn.description)
                /\ ret' = UNDEFINED
           ELSE /\ transactions' = updated
                /\ UNCHANGED category_rules
                /\ ret' = UNDEFINED

RECURSIVE applyRules(_, _)
\* The loop over the rules read at the start: one UPDATE per rule.
applyRules(rows, rules) ==
    IF rules = {} THEN rows
    ELSE LET rule == CHOOSE r \in rules : TRUE
         IN  applyRules(cascadeRule(rows, rule.description_pattern, rule.category_id),
                        rules \ {rule})

appliedCount_Rules(rows, rules) == Cardinality(rules)

RECURSIVE appliedCount(_, _)
\* applied += result.changes, the rows each UPDATE of the loop matched.
appliedCount(rows, rules) ==
    IF rules = {} THEN 0
    ELSE LET rule == CHOOSE r \in rules : TRUE
             matched == { row \in rows :
                            row.description = rule.description_pattern
                               /\ isUncategorized(row) }
         IN  Cardinality(matched)
               + appliedCount(cascadeRule(rows, rule.description_pattern, rule.category_id),
                              rules \ {rule})

applyCategoryRules ==
    /\ call' = Called("applyCategoryRules")
    /\ transactions' = applyRules(transactions, category_rules)
    /\ ret' = appliedCount(transactions, category_rules)
    /\ UNCHANGED <<categories, category_rules, settings>>

\* INSERT OR REPLACE INTO settings (key, value)
setSetting(key, value) ==
    settings' = { row \in settings : row.key # key } \cup { [key |-> key, value |-> value] }

\* amount is an integer, or NULL for a request body without the field.
stringOf(amount) == IF ToString(amount) = ToString(NULL) THEN OtherText ELSE NumText(amount)

setSavingsGoal(amount, year, month) ==
    /\ call' = Called("setSavingsGoal")
    /\ IF year # 0 /\ month # 0
       THEN setSetting(monthKeyOf(year, month), stringOf(amount))
       ELSE setSetting(SAVINGS_GOAL_KEY, stringOf(amount))
    /\ ret' = UNDEFINED
    /\ UNCHANGED <<transactions, categories, category_rules>>

setExpectedIncome(amount) ==
    /\ call' = Called("setExpectedIncome")
    /\ setSetting(EXPECTED_INCOME_KEY, stringOf(amount))
    /\ ret' = UNDEFINED
    /\ UNCHANGED <<transactions, categories, category_rules>>

-----------------------------------------------------------------------------
(* Drawn stores: the tables a run of queries starts from *)

TxnIdOf == <<"t1", "t2", "t3", "t4">>

WithId(row, i) == [row EXCEPT !.id = TxnIdOf[i]]

RECURSIVE SeqOfSet(_)
\* The elements of the finite set S, listed once each.
SeqOfSet(S) ==
    IF S = {} THEN <<>>
    ELSE LET x == CHOOSE y \in S : TRUE
         IN  <<x>> \o SeqOfSet(S \ {x})

\* The table transactions holds at most n rows whose contents come from the
\* list `rows`, up to the naming of the ids: no query reads an id, so the rows
\* of the table are drawn in the order of the list.
DrawnStore(rows, n) ==
    \E k \in 0..n :
        \E f \in { g \in [1..k -> 1..Len(rows)] : \A i \in 1..(k - 1) : g[i] <= g[i + 1] } :
            transactions = { WithId(rows[f[i]], i) : i \in 1..k }

\* A row with the given flag columns, the others as INSERT leaves them.
FlaggedRow(date, amount, description, category_id, is_transfer, is_investment, occasional) ==
    [ NewRow("t", date, amount, description, EMPTY, "Hapoalim", is_transfer, 1)
        EXCEPT !.category_id = category_id, !.is_investment = is_investment,
               !.is_occasional_income = occasional ]

ReadOnly == UNCHANGED <<transactions, categories, category_rules, settings>>

-----------------------------------------------------------------------------
(* Attribution queries over drawn stores *)

MaxAttrTxns == 2

AttrDates ==
    { <<2023, 12, 3>>, <<2023, 12, 4>>, <<2024, 1, 3>>, <<2024, 1, 4>>,
      <<2024, 1, 10>>, <<2024, 2, 1>> }

AttrDescriptions == { <<"maskoret", "februar">>, <<"viza">>, <<"super">> }

AttrAmounts == { -50, 100 }

AttrRows ==
    { FlaggedRow(d, a, x, NULL, 0, 0, 0) :
        d \in AttrDates, a \in AttrAmounts, x \in AttrDescriptions }

AttrYears == 2023..2024

\* The months asked for: those around the turn of the year the rows lie in.
AttrMonths == { 1, 2, 11, 12 }

Months == 1..12

AttrRowList == SeqOfSet(AttrRows)

InitAttribution ==
    /\ DrawnStore(AttrRowList, MaxAttrTxns)
    /\ categories = {}
    /\ category_rules = {}
    /\ settings = {}
    /\ call = NoCall
    /\ ret = UNDEFINED

\* The caller is idle: no query is being answered.
Idle == call.op = "none"

\* The answer has been delivered; the caller may ask again.
Respond ==
    /\ ~Idle
    /\ call' = NoCall
    /\ ret' = UNDEFINED
    /\ ReadOnly

CallGetTransactionsByIsraeliMonth(years, months) ==
    \E year \in years, month \in months :
        /\ Idle
        /\ call' = [NoCall EXCEPT !.op = "getTransactionsByIsraeliMonth",
                                  !.year = year, !.month = month]
        /\ ret' \in OrderByDateDesc(getTransactionsByIsraeliMonth(year, month))
        /\ ReadOnly

AttrQuery == CallGetTransactionsByIsraeliMonth(AttrYears, AttrMonths)

NextAttribution == AttrQuery \/ Respond

SpecAttribution == InitAttribution /\ [][NextAttribution]_vars

-----------------------------------------------------------------------------
(* Claims on attribution *)

ClaimPatternMatch(t) ==
    \/ t.amount > 0 /\ \E p \in SALARY_PATTERNS : Includes(t.description, p)
    \/ \E p \in CREDIT_CARD_PATTERNS : Includes(t.description, p)

ClaimInMonth(t, year, month) == t.date[1] = year /\ t.date[2] = month

ClaimNextYear(year, month) == IF month = 12 THEN year + 1 ELSE year

ClaimNextMonth(month) == IF month = 12 THEN 1 ELSE month + 1

ClaimAttributed(t, year, month) ==
    \/ ClaimInMonth(t, year, month) /\ t.date[3] > 3
    \/ ClaimInMonth(t, year, month) /\ t.date[3] <= 3 /\ ~ClaimPatternMatch(t)
    \/ /\ ClaimInMonth(t, ClaimNextYear(year, month), ClaimNextMonth(month))
       /\ t.date[3] \in 1..3
       /\ ClaimPatternMatch(t)

ClaimLogicalMonth(t) ==
    IF t.date[3] <= 3 /\ ClaimPatternMatch(t)
    THEN IF t.date[2] = 1 THEN <<t.date[1] - 1, 12>> ELSE <<t.date[1], t.date[2] - 1>>
    ELSE <<t.date[1], t.date[2]>>

AllYears == 2022..2025

-----------------------------------------------------------------------------
(* Monthly summaries over drawn stores *)

MaxSummaryTxns == 2

SummaryRows ==
    { FlaggedRow(d, a, <<"super">>, c, tr, inv, 0) :
        d \in { <<2024, 1, 20>>, <<2024, 2, 20>> }, a \in { -50, 0, 70 },
        c \in { NULL, EMPTY, "c1" }, tr \in { 0, 1 }, inv \in { 0, 1 } }

SummaryRowList == SeqOfSet(SummaryRows)

InitSummary ==
    /\ DrawnStore(SummaryRowList, MaxSummaryTxns)
    /\ categories = { CategoryRow("c1", "food") }
    /\ category_rules = {}
    /\ settings = {}
    /\ call = NoCall
    /\ ret = UNDEFINED

CallGetMonthlySummary(years, months) ==
    \E year \in years, month \in months :
        /\ Idle
        /\ call' = [NoCall EXCEPT !.op = "getMonthlySummary",
                                  !.year = year, !.month = month]
        /\ ret' = getMonthlySummary(year, month)
        /\ ReadOnly

SummaryQuery == CallGetMonthlySummary({2024}, 1..3)

NextSummary == SummaryQuery \/ Respond

SpecSummary == InitSummary /\ [][NextSummary]_vars

\* C3: every attributed transaction lands in exactly one list, transfers before
\* investments before counted; income, expenses, balance and the count come
\* from the counted list alone, investmentTotal from the investments, and the
\* per-category income and expenses (null category under 'uncategorized') add
\* up to the totals.
C3_SummaryPartition ==
    call.op = "getMonthlySummary" =>
        LET attr == getTransactionsByIsraeliMonth(call.year, call.month)
            T == { t \in attr : t.is_transfer = 1 }
            I == { t \in attr : t.is_transfer = 0 /\ t.is_investment = 1 }
            N == { t \in attr : t.is_transfer = 0 /\ t.is_investment = 0 }
            by == ret.byCategory
        IN  /\ ret.transfers = T /\ ret.investments = I /\ ret.transactions = N
            /\ ret.income = SumOver({ t \in N : t.amount > 0 },
                                    [t \in N |-> t.amount])
            /\ ret.expenses = SumOver({ t \in N : t.amount <= 0 },
                                      [t \in N |-> -t.amount])
            /\ ret.balance = ret.income - ret.expenses
            /\ ret.transactionCount = Cardinality(N)
            /\ ret.investmentTotal = SumOver(I, [t \in I |-> Abs(t.amount)])
            /\ SumOver(DOMAIN by, [k \in DOMAIN by |-> by[k].income]) = ret.income
            /\ SumOver(DOMAIN by, [k \in DOMAIN by |-> by[k].expenses]) = ret.expenses
            /\ \A t \in N :
                 LET k == IF t.category_id = NULL THEN "uncategorized" ELSE t.category_id
                 IN  t.category_id # EMPTY =>
                        k \in DOMAIN by /\ t \in by[k].transactions

\* A summary of a month holding a row flagged both transfer and investment next
\* to a counted row.
C3_Witness ==
    /\ call.op = "getMonthlySummary"
    /\ \E t \in ret.transfers : t.is_investment = 1
    /\ ret.transactions # {}

-----------------------------------------------------------------------------
(* Yearly summaries over drawn stores *)

MaxYearTxns == 2

YearRows ==
    { FlaggedRow(d, k[1], k[2], NULL, tr, inv, 0) :
        d \in { <<2024, 1, 3>>, <<2024, 1, 4>>, <<2024, 7, 15>>, <<2025, 1, 3>> },
        k \in { <<70, <<"maskoret">> >>, <<-50, <<"maskoret">> >>,
                <<-50, <<"viza">> >>, <<-50, <<"super">> >>, <<70, <<"super">> >> },
        tr \in { 0, 1 }, inv \in { 0, 1 } }

YearRowList == SeqOfSet(YearRows)

InitYear ==
    /\ DrawnStore(YearRowList, MaxYearTxns)
    /\ categories = {}
    /\ category_rules = {}
    /\ settings = {}
    /\ call = NoCall
    /\ ret = UNDEFINED

CallGetYearToDateSummary(years) ==
    \E year \in years :
        /\ Idle
        /\ call' = [NoCall EXCEPT !.op = "getYearToDateSummary", !.year = year]
        /\ ret' = getYearToDateSummary(year)
        /\ ReadOnly

YearQuery == CallGetYearToDateSummary(2023..2025)

NextYear == YearQuery \/ Respond

SpecYear == InitYear /\ [][NextYear]_vars

ClaimResolvedYear(t) ==
    IF t.date[2] = 1 /\ t.date[3] \in 1..3 /\ ClaimPatternMatch(t)
    THEN t.date[1] - 1 ELSE t.date[1]

\* C10: getYearToDateSummary(year) counts exactly the non-transfer transactions
\* whose resolved year is the requested one (a January 1-3 salary/card match
\* resolves to the year before); investments add |amount| to investmentTotal
\* only, the rest to income or expenses by sign, balance = income - expenses.
C10_YearToDate ==
    call.op = "getYearToDateSummary" =>
        LET mine == { t \in transactions :
                        t.is_transfer = 0 /\ ClaimResolvedYear(t) = call.year }
            inv  == { t \in mine : t.is_investment = 1 }
            rest == mine \ inv
        IN  /\ ret.transactionCount = Cardinality(mine)
            /\ ret.investmentTotal = SumOver(inv, [t \in inv |-> Abs(t.amount)])
            /\ ret.income = SumOver({ t \in rest : t.amount > 0 },
                                    [t \in rest |-> t.amount])
            /\ ret.expenses = SumOver({ t \in rest : t.amount <= 0 },
                                      [t \in rest |-> Abs(t.amount)])
            /\ ret.balance = ret.income - ret.expenses

\* A yearly summary that counted an early-January salary/card row of the next
\* year while the store also holds one dated early January of the year asked.
C10_Witness ==
    /\ call.op = "getYearToDateSummary"
    /\ ret.transactionCount >= 1
    /\ \E t \in transactions :
          /\ t.date[1] = call.year + 1 /\ t.date[3] <= 3
          /\ ClaimPatternMatch(t) /\ t.is_transfer = 0
    /\ \E u \in transactions :
          u.date[1] = call.year /\ u.date[2] = 1 /\ u.date[3] <= 3 /\ ClaimPatternMatch(u)

-----------------------------------------------------------------------------
(* Category averages over drawn stores *)

MaxAverageTxns == 3

AverageDates ==
    { <<2023, 10, 15>>, <<2023, 11, 15>>, <<2023, 12, 15>>, <<2024, 1, 15>>,
      <<2024, 2, 15>> }

AverageRows ==
    { FlaggedRow(d, a, <<"super">>, c, 0, 0, 0) :
        d \in AverageDates, a \in { -120, -45 }, c \in { "c1", NULL } }
    \cup { FlaggedRow(<<2024, 1, 15>>, 70, <<"super">>, "c1", 0, 0, 0),
           FlaggedRow(<<2024, 1, 15>>, -45, <<"super">>, "c1", 1, 0, 0) }

AverageRowList == SeqOfSet(AverageRows)

InitAverage ==
    /\ DrawnStore(AverageRowList, MaxAverageTxns)
    /\ categories = { CategoryRow("c1", "food") }
    /\ category_rules = {}
    /\ settings = {}
    /\ call = NoCall
    /\ ret = UNDEFINED

CallGetCategoryAverage(categoryIds, years, months) ==
    \E categoryId \in categoryIds, year \in years, month \in months :
        /\ Idle
        /\ call' = [NoCall EXCEPT !.op = "getCategoryAverage", !.year = year,
                                  !.month = month, !.categoryId = categoryId]
        /\ ret' = getCategoryAverage(categoryId, year, month, NUM_MONTHS)
        /\ ReadOnly

AverageQuery == CallGetCategoryAverage({ "c1", "uncategorized" }, {2024}, {1, 2})

NextAverage == AverageQuery \/ Respond

SpecAverage == InitAverage /\ [][NextAverage]_vars

\* The k-th calendar month before (year, month).
ClaimMonthBefore(year, month, k) ==
    LET idx == year * 12 + (month - 1) - k
    IN  <<idx \div 12, (idx % 12) + 1>>

ClaimCategoryExpenses(categoryId, ym) ==
    LET by == getMonthlySummary(ym[1], ym[2]).byCategory
    IN  IF categoryId \in DOMAIN by THEN by[categoryId].expenses ELSE 0

\* C6: getCategoryAverage(categoryId, year, month, 3) takes the category's
\* expense totals of the 3 calendar months strictly before (year, month),
\* drops the months whose total is 0 and returns the mean of the others rounded
\* to the nearest integer, or 0 when every month is 0.
C6_CategoryAverage ==
    call.op = "getCategoryAverage" =>
        LET total(k) ==
                ClaimCategoryExpenses(call.categoryId,
                                      ClaimMonthBefore(call.year, call.month, k))
            nonZero == { k \in 1..3 : total(k) # 0 }
            sum == SumOver(nonZero, [k \in nonZero |-> total(k)])
            n   == Cardinality(nonZero)
        IN  IF n = 0 THEN ret = 0
            ELSE /\ 2 * Abs(n * ret - sum) <= n
                 /\ (n = 1 => ret = sum)

\* An average asked for a category whose three months before hold one non-zero
\* total (as in [0, 120, 0]) while the month asked about holds an expense too.
C6_Witness ==
    /\ call.op = "getCategoryAverage"
    /\ ret = 120
    /\ Cardinality({ k \in 1..3 :
          ClaimCategoryExpenses(call.categoryId,
                                ClaimMonthBefore(call.year, call.month, k)) # 0 }) = 1
    /\ ClaimCategoryExpenses(call.categoryId, <<call.year, call.month>>) # 0

-----------------------------------------------------------------------------
(* The available budget over drawn stores *)

MaxBudgetTxns == 2

BudgetRows ==
    { FlaggedRow(d, k[1], <<"super">>, c, 0, 0, k[2]) :
        d \in { <<2023, 12, 15>>, <<2024, 1, 15>>, <<2024, 2, 15>> },
        k \in { <<-120, 0>>, <<-45, 0>>, <<100, 0>>, <<60, 1>> },
        c \in { "c1", "cV", NULL } }

BudgetCategories ==
    { { CategoryRow("c1", "food"), CategoryRow("cV", VARIABLE_EXPENSES_NAME) },
      { CategoryRow("c1", "food"), CategoryRow("cV", "misc") } }

\* Settings tables: none, an expected-income override (numeric or not), a
\* default savings goal, and a goal for January 2024 next to either.
BudgetSettings ==
    { {},
      { [key |-> EXPECTED_INCOME_KEY, value |-> NumText(150)] },
      { [key |-> EXPECTED_INCOME_KEY, value |-> OtherText] },
      { [key |-> SAVINGS_GOAL_KEY, value |-> NumText(30)] },
      { [key |-> SAVINGS_GOAL_KEY, value |-> NumText(30)],
        [key |-> monthKeyOf(2024, 1), value |-> NumText(500)] },
      { [key |-> EXPECTED_INCOME_KEY, value |-> NumText(150)],
        [key |-> monthKeyOf(2024, 1), value |-> NumText(0)] } }

BudgetRowList == SeqOfSet(BudgetRows)

InitBudget ==
    /\ DrawnStore(BudgetRowList, MaxBudgetTxns)
    /\ categories \in BudgetCategories
    /\ category_rules = {}
    /\ settings \in BudgetSettings
    /\ call = NoCall
    /\ ret = UNDEFINED

CallCalculateAvailableBudget(years, months) ==
    \E year \in years, month \in months :
        /\ Idle
        /\ call' = [NoCall EXCEPT !.op = "calculateAvailableBudget",
                                  !.year = year, !.month = month]
        /\ ret' = calculateAvailableBudget(year, month)
        /\ ReadOnly

BudgetQuery == CallCalculateAvailableBudget({2024}, {1, 2})

NextBudget == BudgetQuery \/ Respond

SpecBudget == InitBudget /\ [][NextBudget]_vars

ClaimCounted(year, month) ==
    { t \in getTransactionsByIsraeliMonth(year, month) :
        t.is_transfer = 0 /\ t.is_investment = 0 }

ClaimVariableIds == { c.id : c \in { c \in categories : c.name = VARIABLE_EXPENSES_NAME } }

\* C4 (as claimed): fixedExpenses is the sum over every category other than the
\* variable-expenses one - whether or not it has a transaction in the month - of
\* MAX(actual expense in the month, 3-month average); the expenses of the
\* month under no category enter the same way when there are any.
C4_FixedExpensesEveryCategory ==
    call.op = "calculateAvailableBudget" =>
        LET by   == getMonthlySummary(call.year, call.month).byCategory
            none == IF "uncategorized" \in DOMAIN by THEN { "uncategorized" } ELSE {}
            cats == ({ c.id : c \in categories } \ ClaimVariableIds) \cup none
            actual(c) == IF c \in DOMAIN by THEN by[c].expenses ELSE 0
        IN  ret.fixedExpenses =
                SumOver(cats, [c \in cats |->
                    Max(actual(c),
                        getCategoryAverage(c, call.year, call.month, 3))])

ClaimOverride ==
    IF \E row \in settings : row.key = EXPECTED_INCOME_KEY /\ row.value.num
    THEN (CHOOSE row \in settings : row.key = EXPECTED_INCOME_KEY).value.n
    ELSE 0

\* C5: expectedRegularIncome is the largest of the regular income received in
\* the month, the stored expected-income override and the 3-month average of
\* regular income; expectedIncome adds the occasional income received in the
\* month; regular/occasional income are the positive counted amounts with the
\* occasional flag clear/set.
C5_ExpectedIncome ==
    call.op = "calculateAvailableBudget" =>
        LET counted    == ClaimCounted(call.year, call.month)
            regular    == { t \in counted : t.amount > 0 /\ t.is_occasional_income = 0 }
            occasional == { t \in counted : t.amount > 0 /\ t.is_occasional_income = 1 }
            actualRegular    == SumOver(regular, [t \in regular |-> t.amount])
            actualOccasional == SumOver(occasional, [t \in occasional |-> t.amount])
            average == getAverageRegularIncome(call.year, call.month, 3)
            candidates == { actualRegular, ClaimOverride, average }
        IN  /\ ret.expectedRegularIncome \in candidates
            /\ \A c \in candidates : ret.expectedRegularIncome >= c
            /\ ret.expectedIncome = ret.expectedRegularIncome + actualOccasional
            /\ ret.actualRegularIncome = actualRegular
            /\ ret.actualOccasionalIncome = actualOccasional

\* A budget whose expected regular income is the stored override, above the
\* regular income received, with occasional income received on top.
C5_Witness ==
    /\ call.op = "calculateAvailableBudget"
    /\ ret.expectedRegularIncome = 150
    /\ ret.actualRegularIncome = 100
    /\ ret.actualOccasionalIncome = 60
    /\ ret.expectedIncome = 210

\* The goal the settings hold for (year, month): the month's own value when
\* one is stored, else the default, else 0; a text that is no number counts 0.
ClaimSavingsGoal(year, month) ==
    LET own  == { r \in settings : r.key = <<"savings_goal", year, month>> }
        dflt == { r \in settings : r.key = <<"savings_goal">> }
        numberOf(rs) == LET r == CHOOSE x \in rs : TRUE
                        IN  IF r.value.num THEN r.value.n ELSE 0
    IN  IF own # {} THEN numberOf(own)
        ELSE IF dflt # {} THEN numberOf(dflt)
        ELSE 0

\* C11: availableForVariable = expectedIncome - savingsGoal - fixedExpenses and
\* remainingForVariable = availableForVariable - variableActual, savingsGoal
\* being the goal of the month and variableActual the month's counted expenses
\* under the variable-expenses category (0 without that category or without
\* such a transaction); negative results are returned as values.
C11_AvailableForVariable ==
    call.op = "calculateAvailableBudget" =>
        LET counted  == ClaimCounted(call.year, call.month)
            variable == { t \in counted : t.amount <= 0
                                          /\ t.category_id \in ClaimVariableIds }
        IN  /\ ret.availableForVariable
                 = ret.expectedIncome - ret.savingsGoal - ret.fixedExpenses
            /\ ret.remainingForVariable = ret.availableForVariable - ret.variableActual
            /\ ret.savingsGoal = ClaimSavingsGoal(call.year, call.month)
            /\ ret.variableActual = SumOver(variable, [t \in variable |-> -t.amount])

\* A budget for January 2024 under its own goal of 500: expenses under the
\* variable category, and both results below zero.
C11_Witness ==
    /\ call.op = "calculateAvailableBudget"
    /\ ret.savingsGoal = 500
    /\ ret.variableActual > 0
    /\ ret.availableForVariable < 0
    /\ ret.remainingForVariable < ret.availableForVariable

-----------------------------------------------------------------------------
(* Regular and occasional income over drawn stores *)

MaxIncomeTxns == 3

\* Incomes of three months, regular ones of two sizes and an occasional one,
\* and a regular income excluded as a transfer.
IncomeRows ==
    { FlaggedRow(d, k[1], <<"bit">>, NULL, 0, 0, k[2]) :
        d \in { <<2023, 11, 15>>, <<2023, 12, 15>>, <<2024, 1, 15>> },
        k \in { <<100, 0>>, <<75, 0>>, <<60, 1>> } }
    \cup { FlaggedRow(<<2023, 12, 15>>, 100, <<"bit">>, NULL, 1, 0, 0) }

IncomeRowList == SeqOfSet(IncomeRows)

InitIncome ==
    /\ DrawnStore(IncomeRowList, MaxIncomeTxns)
    /\ categories = {}
    /\ category_rules = {}
    /\ settings = {}
    /\ call = NoCall
    /\ ret = UNDEFINED

IncomeQuery == CallCalculateAvailableBudget({2024}, {1, 2})

NextIncome == IncomeQuery \/ Respond

SpecIncome == InitIncome /\ [][NextIncome]_vars

\* The positive counted amounts of the month ym whose occasional flag is flag.
ClaimIncome(ym, flag) ==
    LET rows == { t \in ClaimCounted(ym[1], ym[2]) :
                    t.amount > 0 /\ t.is_occasional_income = flag }
    IN  SumOver(rows, [t \in rows |-> t.amount])

\* C12: the average of regular income over the 3 months before the month asked
\* about leaves out every income flagged occasional, drops the months whose
\* regular income is 0 and is 0 when none remains, while the month's own
\* summary income counts its occasional income and expectedIncome adds it to
\* the expected regular income.
C12_OccasionalIncomeExcluded ==
    call.op = "calculateAvailableBudget" =>
        LET regular(k) == ClaimIncome(ClaimMonthBefore(call.year, call.month, k), 0)
            nonZero == { k \in 1..3 : regular(k) > 0 }
            sum == SumOver(nonZero, [k \in nonZero |-> regular(k)])
            n   == Cardinality(nonZero)
            own == <<call.year, call.month>>
        IN  /\ IF n = 0 THEN ret.averageIncome = 0
               ELSE /\ 2 * Abs(n * ret.averageIncome - sum) <= n
                    /\ (n = 1 => ret.averageIncome = sum)
            /\ ret.actualIncome = ClaimIncome(own, 0) + ClaimIncome(own, 1)
            /\ ret.expectedIncome = ret.expectedRegularIncome + ClaimIncome(own, 1)

\* A budget for a month that received only an occasional income, after a
\* month that received a regular and an occasional one: the average is the
\* regular income alone.
C12_Witness ==
    /\ call.op = "calculateAvailableBudget"
    /\ ret.averageIncome = 100
    /\ ClaimIncome(ClaimMonthBefore(call.year, call.month, 1), 1) = 60
    /\ ret.actualIncome = 60
    /\ ret.expectedIncome = 160

-----------------------------------------------------------------------------
(* The store under ingestion and the transfer / investment flags *)

MaxBatch == 2

MaxClock == 2

Timestamps == 1..MaxClock

TxnIds == { "t1", "t2" }

RawRecord(date, amount, description, memo) ==
    [date |-> date, amount |-> amount, description |-> description, memo |-> memo]

\* Scraped records: a plain expense, an early-month income, a card lump sum
\* (a transfer pattern), and a record without a date.
RawRecords ==
    { RawRecord(<<2024, 1, 15>>, -50, <<"super">>, NULL),
      RawRecord(<<2024, 2, 2>>, 100, <<"bit">>, "m"),
      RawRecord(<<2024, 2, 2>>, -50, <<"kartisei", "ashrai", "l", "CAL">>, EMPTY),
      RawRecord(NoDate, -50, <<"super">>, EMPTY) }

WithTxnId(raw, id) ==
    [id |-> id, date |-> raw.date, amount |-> raw.amount,
     description |-> raw.description, memo |-> raw.memo]

\* Every batch of 1..n records over the given ids and raw records.
Batches(ids, raws, n) ==
    LET records == { WithTxnId(raw, id) : raw \in raws, id \in ids }
    IN  UNION { [1..k -> records] : k \in 1..n }

Init ==
    /\ transactions = {}
    /\ categories = {}
    /\ category_rules = {}
    /\ settings = {}
    /\ call = NoCall
    /\ ret = UNDEFINED

Upsert ==
    \E txns \in Batches(TxnIds, RawRecords, MaxBatch), now \in Timestamps :
        upsertTransactions(txns, "Hapoalim", now)

SetTransfer ==
    \E id \in TxnIds, flag \in BOOLEAN : setTransactionTransfer(id, flag)

SetInvestment ==
    \E id \in TxnIds, flag \in BOOLEAN : setTransactionInvestment(id, flag)

Redetect == redetectTransfers

ExcludeMonth ==
    \E month \in { 1, 2 } : excludeAllInMonth(2024, month)

Next == Upsert \/ SetTransfer \/ SetInvestment \/ Redetect \/ ExcludeMonth

Spec == Init /\ [][Next]_vars

\* C9 (as claimed): no stored transaction is both a transfer and an investment.
C9_TransferInvestmentExclusive ==
    \A t \in transactions : ~(t.is_transfer = 1 /\ t.is_investment = 1)

-----------------------------------------------------------------------------
(* Re-ingestion of stored identities next to the user's edits *)

Accounts == { "Hapoalim", "VisaCal" }

\* What the scrape of each account yields: the identity t1 is reported by both
\* accounts with every field different; t2 only by the first.
IngestFeed(account) ==
    IF account = "Hapoalim"
    THEN { WithTxnId(RawRecord(<<2024, 1, 15>>, -50, <<"super">>, NULL), "t1"),
           WithTxnId(RawRecord(<<2024, 1, 20>>, -50, <<"super">>, EMPTY), "t2") }
    ELSE { WithTxnId(RawRecord(<<2024, 2, 2>>, 100, <<"bit">>, "m"), "t1") }

InitIngest ==
    /\ transactions = {}
    /\ categories = { CategoryRow("c1", "food") }
    /\ category_rules = {}
    /\ settings = {}
    /\ call = NoCall
    /\ ret = UNDEFINED

MaxIngestBatch == 1

IngestBatches(account) ==
    UNION { [1..k -> IngestFeed(account)] : k \in 1..MaxIngestBatch }

IngestUpsert ==
    \E account \in Accounts, now \in Timestamps :
      \E txns \in IngestBatches(account) :
        upsertTransactions(txns, account, now)

\* The transaction the user edits between ingestions; the other identity is
\* only ever written by ingestion and by the rule cascade.
EditedIds == { "t1" }

IngestSetCategory ==
    \E id \in EditedIds, categoryId \in { NULL, "c1" } :
        setTransactionCategory(id, categoryId)

IngestSetTransfer ==
    \E id \in EditedIds, flag \in BOOLEAN : setTransactionTransfer(id, flag)

IngestSetInvestment ==
    \E id \in EditedIds, flag \in BOOLEAN : setTransactionInvestment(id, flag)

SetOccasionalIncome ==
    \E id \in EditedIds, flag \in BOOLEAN : setTransactionOccasionalIncome(id, flag)

SetComment ==
    \E id \in EditedIds, comment \in { EMPTY, "note" } :
        setTransactionComment(id, comment)

NextIngest ==
    \/ IngestUpsert \/ IngestSetCategory \/ IngestSetTransfer \/ IngestSetInvestment
    \/ SetOccasionalIncome \/ SetComment

SpecIngest == InitIngest /\ [][NextIngest]_vars

-----------------------------------------------------------------------------
(* Claims on re-ingestion *)

\* The last record of the batch that carries the identity id.
ClaimLastRecord(txns, id) ==
    LET at == { i \in 1..Len(txns) : txns[i].id = id }
    IN  txns[CHOOSE i \in at : \A j \in at : j <= i]

ClaimInBatch(txns, id) == \E i \in 1..Len(txns) : txns[i].id = id

\* No record of the batch is refused by the table.
ClaimAccepted(txns) == \A i \in 1..Len(txns) : txns[i].date # NoDate

ClaimFlagsKept(old, new) ==
    /\ new.category_id = old.category_id
    /\ new.is_transfer = old.is_transfer
    /\ new.is_investment = old.is_investment
    /\ new.is_occasional_income = old.is_occasional_income
    /\ new.user_comment = old.user_comment

ClaimSixRewritten(new, record, account) ==
    /\ new.date = record.date
    /\ new.amount = record.amount
    /\ new.description = record.description
    /\ new.memo = (IF record.memo = NULL THEN EMPTY ELSE record.memo)
    /\ new.account = account
    /\ new.type = (IF record.amount > 0 THEN "income" ELSE "expense")

\* C7 (as claimed): a successful upsertTransactions leaves exactly one row for
\* every identity of the batch that was already stored; that row keeps its
\* category_id, is_transfer, is_investment, is_occasional_income and
\* user_comment, takes date, amount, description, memo, account and type from
\* the batch, and has no other column rewritten.
C7_OnlySixRewritten ==
    [][ \A account \in Accounts, now \in Timestamps :
         \A txns \in IngestBatches(account) :
          (ClaimAccepted(txns) /\ upsertTransactions(txns, account, now)) =>
             \A old \in transactions :
                ClaimInBatch(txns, old.id) =>
                   LET news == { n \in transactions' : n.id = old.id }
                   IN  /\ Cardinality(news) = 1
                       /\ \A n \in news :
                            /\ ClaimFlagsKept(old, n)
                            /\ ClaimSixRewritten(n, ClaimLastRecord(txns, old.id), account)
                            /\ n.scraped_at = old.scraped_at ]_vars

\* C7 (amended): a successful upsertTransactions leaves exactly one row for
\* every identity of the batch that was already stored; that row keeps its
\* category_id, is_transfer, is_investment, is_occasional_income and
\* user_comment, and takes date, amount, description, memo, account and type
\* from the batch and the time of the ingestion as scraped_at; rows of other
\* identities already stored are unchanged.
C7_ReingestPreservesFlags ==
    [][ \A account \in Accounts, now \in Timestamps :
         \A txns \in IngestBatches(account) :
          (ClaimAccepted(txns) /\ upsertTransactions(txns, account, now)) =>
             \A old \in transactions :
                IF ClaimInBatch(txns, old.id)
                THEN LET news == { n \in transactions' : n.id = old.id }
                     IN  /\ Cardinality(news) = 1
                         /\ \A n \in news :
                              /\ ClaimFlagsKept(old, n)
                              /\ ClaimSixRewritten(n, ClaimLastRecord(txns, old.id),
                                                   account)
                              /\ n.scraped_at = now
                ELSE old \in transactions' ]_vars

\* The only stored transaction, categorised, excluded, marked occasional and
\* commented by the user, right after an ingestion at the later time from the
\* other account rewrote it.
C7_Witness ==
    /\ call.op = "upsertTransactions"
    /\ ret = 1
    /\ \E t \in transactions :
          /\ transactions = { t }
          /\ t.category_id = "c1" /\ t.is_transfer = 1
          /\ t.is_occasional_income = 1 /\ t.user_comment = "note"
          /\ t.account = "VisaCal" /\ t.scraped_at = MaxClock

-----------------------------------------------------------------------------
(* Batches with a record the table refuses *)

MaxFailBatch == 2

\* Two records the table accepts and one without a date.
FailRecords ==
    { RawRecord(<<2024, 1, 15>>, -50, <<"super">>, NULL),
      RawRecord(<<2024, 2, 2>>, 100, <<"bit">>, "m"),
      RawRecord(NoDate, -50, <<"super">>, EMPTY) }

FailBatches == Batches(TxnIds, FailRecords, MaxFailBatch)

BatchUpsert ==
    \E txns \in FailBatches, now \in Timestamps :
        upsertTransactions(txns, "Hapoalim", now)

NextBatch == BatchUpsert \/ SetTransfer

SpecBatch == Init /\ [][NextBatch]_vars

\* The value is the mark of a call that threw (the values returned are of
\* several kinds, which only their printed form compares).
ClaimThrew(value) == ToString(value) = ToString(THROWN)

\* C13: an upsertTransactions whose batch holds a record the table refuses (a
\* record without a date) fails as a whole: no record of the batch is inserted
\* or updated, the transaction table is as it was before the call.
C13_BatchAllOrNothing ==
    [][ (call' = Called("upsertTransactions") /\ ClaimThrew(ret')) =>
          \/ transactions' = transactions
          \/ \A now \in Timestamps :
                \A txns \in FailBatches :
                   ~ClaimAccepted(txns) => ~upsertTransactions(txns, "Hapoalim", now) ]_vars

\* A failed ingestion over a table that holds a transaction.
C13_Witness ==
    /\ call.op = "upsertTransactions"
    /\ ClaimThrew(ret)
    /\ transactions # {}

-----------------------------------------------------------------------------
(* Category assignment, the learned rules and their cascade *)

RuleIds == { "t1", "t2", "t3" }

RuleDescriptions == { <<"super">>, <<"bit">>, <<>> }

\* Category ids a client may send: the two stored ones, one that names no
\* category, and none.
RuleCategoryIds == { "c1", "c2", "cX", NULL }

InitRules ==
    /\ transactions = {}
    /\ categories = { CategoryRow("c1", "food"), CategoryRow("c2", "fun") }
    /\ category_rules = {}
    /\ settings = {}
    /\ call = NoCall
    /\ ret = UNDEFINED

RuleUpsert ==
    \E id \in RuleIds, description \in RuleDescriptions :
        upsertTransactions(
            << WithTxnId(RawRecord(<<2024, 1, 15>>, -50, description, EMPTY), id) >>,
            "Hapoalim", 1)

SetCategory ==
    \E id \in RuleIds, categoryId \in RuleCategoryIds :
        setTransactionCategory(id, categoryId)

ApplyRules == applyCategoryRules

NextRules == RuleUpsert \/ SetCategory \/ ApplyRules

SpecRules == InitRules /\ [][NextRules]_vars

ClaimUncategorized(row) == row.category_id \in { NULL, EMPTY }

\* What the claim gives the stored row `old` when transaction `a` of
\* description x is assigned category c.
ClaimAssigned(old, a, x, c) ==
    IF old.id = a \/ (old.description = x /\ ClaimUncategorized(old))
    THEN [old EXCEPT !.category_id = c]
    ELSE old

\* C8: setTransactionCategory(A, c), c the id of a stored category and A a
\* stored transaction of non-empty description X, sets A's category to c,
\* leaves exactly the rule X -> c for X and every other rule as it was, gives c
\* to every uncategorized transaction of description X, and leaves every other
\* transaction (categorized ones of description X, and other descriptions)
\* unchanged.
C8_RuleCascade ==
    [][ \A a \in RuleIds, c \in { k.id : k \in categories } :
          \A A \in { t \in transactions : t.id = a /\ t.description # <<>> } :
             setTransactionCategory(a, c) =>
                /\ transactions' =
                     { ClaimAssigned(old, a, A.description, c) : old \in transactions }
                /\ { r \in category_rules' : r.description_pattern = A.description }
                     = { [description_pattern |-> A.description, category_id |-> c] }
                /\ { r \in category_rules' : r.description_pattern # A.description }
                     = { r \in category_rules : r.description_pattern # A.description }
      ]_vars

\* Right after an assignment: three transactions of one description, two
\* under the category of the rule and one still under the other category.
C8_Witness ==
    /\ call.op = "setTransactionCategory"
    /\ ret = UNDEFINED
    /\ category_rules = { [description_pattern |-> <<"super">>, category_id |-> "c1"] }
    /\ Cardinality(transactions) = 3
    /\ \A t \in transactions : t.description = <<"super">>
    /\ { t.id : t \in { t \in transactions : t.category_id = "c1" } } = { "t1", "t2" }
    /\ \E t \in transactions : t.id = "t3" /\ t.category_id = "c2"

\* C14 (as claimed): setTransactionCategory and applyCategoryRules are one
\* atomic batch: a call of theirs that fails partway leaves none of its
\* writes (the transaction's own category, the rule, the cascade) in the store.
C14_CascadeAtomic ==
    [][ (call'.op \in { "setTransactionCategory", "applyCategoryRules" }
            /\ ClaimThrew(ret')) =>
          /\ transactions' = transactions
          /\ category_rules' = category_rules ]_vars

\* A transaction of description x as a later ingestion inserts it.
ClaimIngested(x) ==
    NewRow("tNew", <<2024, 1, 15>>, -50, x, EMPTY, "Hapoalim", bit(isTransfer(x)), 1)

\* C15: setTransactionCategory(t, null) on a stored t sets t's category to
\* null, deletes the rule keyed by t's description and no other rule, and
\* changes no other transaction; an applyCategoryRules right after it
\* categorizes neither t nor a newly ingested transaction of that description.
C15_ClearCategory ==
    [][ \A a \in RuleIds :
          \A A \in { t \in transactions : t.id = a } :
             setTransactionCategory(a, NULL) =>
                /\ transactions' =
                     { IF old.id = a THEN [old EXCEPT !.category_id = NULL] ELSE old :
                         old \in transactions }
                /\ category_rules' =
                     { r \in category_rules : r.description_pattern # A.description }
                /\ \A row \in applyRules(transactions' \cup { ClaimIngested(A.description) },
                                         category_rules') :
                      row.id \in { a, "tNew" } => row.category_id = NULL
      ]_vars

\* Right after a category was cleared: the rule is gone, the cleared
\* transaction has no category and another one of its description keeps the
\* category it received through the rule.
C15_Witness ==
    /\ call.op = "setTransactionCategory"
    /\ category_rules = {}
    /\ \E t \in transactions :
          t.id = "t1" /\ t.description = <<"super">> /\ t.category_id = NULL
    /\ \E t \in transactions :
          t.id = "t2" /\ t.description = <<"super">> /\ t.category_id = "c1"

\* The rules whose description is that of the row.
ClaimRulesOf(row) == { r \in category_rules : r.description_pattern = row.description }

\* C16: applyCategoryRules gives every uncategorized transaction whose
\* description is that of a rule the category of the rule, changes no other
\* transaction and no rule, and returns the number of transactions it changed;
\* applied again at once it changes nothing and counts 0.
C16_ApplyRulesIdempotent ==
    [][ applyCategoryRules =>
          /\ transactions' =
               { IF ClaimUncategorized(old) /\ ClaimRulesOf(old) # {}
                 THEN [old EXCEPT !.category_id =
                          (CHOOSE r \in ClaimRulesOf(old) : TRUE).category_id]
                 ELSE old : old \in transactions }
          /\ category_rules' = category_rules
          /\ ret' = Cardinality({ old \in transactions : old \notin transactions' })
          /\ applyRules(transactions', category_rules') = transactions'
          /\ appliedCount(transactions', category_rules') = 0 ]_vars

\* Right after an application that categorized one new transaction, next to
\* one that keeps another category than the rule's.
C16_Witness ==
    /\ call.op = "applyCategoryRules"
    /\ ret = 1
    /\ category_rules = { [description_pattern |-> <<"super">>, category_id |-> "c2"] }
    /\ \E t \in transactions : t.id = "t1" /\ t.category_id = "c1"
    /\ \E t \in transactions : t.id = "t3" /\ t.category_id = "c2"
    /\ \A t \in transactions : t.description = <<"super">>

-----------------------------------------------------------------------------
(* Deleting categories under rules *)

CategoryTxnIds == { "t1", "t2" }

CategoryDescriptions == { <<"super">>, <<"bit">> }

StoredCategoryIds == { "c1", "c2" }

CategoryIngest ==
    \E id \in CategoryTxnIds, description \in CategoryDescriptions :
        upsertTransactions(
            << WithTxnId(RawRecord(<<2024, 1, 15>>, -50, description, EMPTY), id) >>,
            "Hapoalim", 1)

CategoryAssign ==
    \E id \in CategoryTxnIds, categoryId \in StoredCategoryIds \cup { NULL } :
        setTransactionCategory(id, categoryId)

DeleteCategory == \E id \in StoredCategoryIds : deleteCategory(id)

NextCategory == CategoryIngest \/ CategoryAssign \/ DeleteCategory \/ ApplyRules

SpecCategory == InitRules /\ [][NextCategory]_vars

\* C17: deleteCategory(id) sets category_id to null on every transaction that
\* referenced the category, removes every rule that maps to it and removes the
\* category; the stored transactions and their other fields, the other
\* categories, the rules of other categories and the settings are unchanged,
\* and an applyCategoryRules after it gives no transaction the deleted category.
C17_DeleteCategory ==
    [][ \A id \in StoredCategoryIds :
          deleteCategory(id) =>
             /\ transactions' =
                  { IF old.category_id = id THEN [old EXCEPT !.category_id = NULL]
                    ELSE old : old \in transactions }
             /\ category_rules' = { r \in category_rules : r.category_id # id }
             /\ categories' = { c \in categories : c.id # id }
             /\ settings' = settings
             /\ \A row \in applyRules(transactions', category_rules') :
                   row.category_id # id ]_vars

\* Right after a category was deleted: its former transactions have no
\* category, its rule is gone, and the transaction and rule of the other
\* category are in place.
C17_Witness ==
    /\ call.op = "deleteCategory"
    /\ { c.id : c \in categories } = { "c2" }
    /\ category_rules = { [description_pattern |-> <<"bit">>, category_id |-> "c2"] }
    /\ \E t \in transactions :
          t.id = "t1" /\ t.description = <<"super">> /\ t.category_id = NULL
    /\ \E t \in transactions :
          t.id = "t2" /\ t.description = <<"bit">> /\ t.category_id = "c2"

-----------------------------------------------------------------------------
(* Transfer detection at ingestion *)

MaxDetectBatch == 2

\* A plain purchase and the lump sum of the card, which the patterns match.
DetectRecords ==
    { RawRecord(<<2024, 1, 15>>, -50, <<"super">>, EMPTY),
      RawRecord(<<2024, 2, 2>>, -50, <<"kartisei", "ashrai", "l", "CAL">>, EMPTY) }

DetectBatches == Batches(TxnIds, DetectRecords, MaxDetectBatch)

DetectUpsert ==
    \E txns \in DetectBatches : upsertTransactions(txns, "Hapoalim", 1)

NextDetect == DetectUpsert \/ SetTransfer \/ SetInvestment

SpecDetect == Init /\ [][NextDetect]_vars

\* The first record of the batch for the identity.
ClaimFirstRecord(txns, id) ==
    LET at == { i \in 1..Len(txns) : txns[i].id = id }
    IN  txns[CHOOSE i \in at : \A j \in at : i <= j]

ClaimTransferDescription(description) ==
    \E p \in TRANSFER_PATTERNS : Includes(description, p)

\* C18: upsertTransactions sets is_transfer from the description patterns for
\* an identity it inserts, and leaves is_transfer of every identity already
\* stored as it was, whatever its description matches.
C18_DetectOnInsertOnly ==
    [][ \A txns \in DetectBatches :
          upsertTransactions(txns, "Hapoalim", 1) =>
             \A n \in transactions' :
                LET olds == { old \in transactions : old.id = n.id }
                IN  IF olds = {}
                    THEN n.is_transfer =
                           (IF ClaimTransferDescription(
                                  ClaimFirstRecord(txns, n.id).description)
                            THEN 1 ELSE 0)
                    ELSE \A old \in olds : n.is_transfer = old.is_transfer ]_vars

\* Right after an ingestion: a transfer by the user's word under a plain
\* description, and a counted transaction by the user's word under a
\* description the patterns match.
C18_Witness ==
    /\ call.op = "upsertTransactions"
    /\ \E t \in transactions :
          t.id = "t1" /\ t.description = <<"super">> /\ t.is_transfer = 1
    /\ \E t \in transactions :
          /\ t.id = "t2"
          /\ t.description = <<"kartisei", "ashrai", "l", "CAL">>
          /\ t.is_transfer = 0

-----------------------------------------------------------------------------
(* Savings goals: the default and the months' overrides *)

GoalAmounts == { 0, 30, 500 }

\* 0 stands for a year or a month left out of the request.
GoalYears == { 0, 2024 }

GoalMonths == { 0, 1, 2 }

SetSavingsGoal ==
    \E amount \in GoalAmounts, year \in GoalYears, month \in GoalMonths :
        setSavingsGoal(amount, year, month)

SetExpectedIncome == setExpectedIncome(150)

CallGetSavingsGoal ==
    \E year \in GoalYears, month \in GoalMonths :
        /\ call' = [NoCall EXCEPT !.op = "getSavingsGoal", !.year = year, !.month = month]
        /\ ret' = getSavingsGoal(year, month)
        /\ ReadOnly

NextGoal == SetSavingsGoal \/ SetExpectedIncome \/ CallGetSavingsGoal

SpecGoal == Init /\ [][NextGoal]_vars

\* The key the claim has setSavingsGoal(a, year, month) write.
ClaimGoalKey(year, month) ==
    IF year # 0 /\ month # 0 THEN <<"savings_goal", year, month>> ELSE <<"savings_goal">>

\* C19: getSavingsGoal(year, month) returns the value stored for exactly that
\* month when one was set and the default otherwise (0 without a default);
\* setSavingsGoal(a, year, month) writes that month's override alone and
\* setSavingsGoal(a) without a month the default alone, every other setting
\* keeping its value.
C19_SavingsGoalOverride ==
    [][ /\ call'.op = "getSavingsGoal" =>
             ret' = ClaimSavingsGoal(call'.year, call'.month)
        /\ \A a \in GoalAmounts, year \in GoalYears, month \in GoalMonths :
              setSavingsGoal(a, year, month) =>
                 LET key == ClaimGoalKey(year, month)
                 IN  /\ { r \in settings' : r.key # key } = { r \in settings : r.key # key }
                     /\ { r \in settings' : r.key = key }
                          = { [key |-> key, value |-> [num |-> TRUE, n |-> a]] } ]_vars

\* The goal of a month whose override is 0 next to a default of 30 and
\* another month's override of 500.
C19_Witness ==
    /\ call.op = "getSavingsGoal"
    /\ call.year = 2024
    /\ call.month = 1
    /\ ret = 0
    /\ [key |-> <<"savings_goal", 2024, 1>>, value |-> NumText(0)] \in settings
    /\ [key |-> <<"savings_goal", 2024, 2>>, value |-> NumText(500)] \in settings
    /\ [key |-> <<"savings_goal">>, value |-> NumText(30)] \in settings

-----------------------------------------------------------------------------
(* Mutations of one transaction *)

\* The step rewrites nothing but the given fields of the transaction `id`.
ClaimSingleField(id, fields) ==
    /\ Cardinality(transactions') = Cardinality(transactions)
    /\ \A old \in transactions :
          \E n \in transactions' :
             /\ n.id = old.id
             /\ \A f \in DOMAIN old : (old.id # id \/ f \notin fields) => n[f] = old[f]
    /\ categories' = categories
    /\ category_rules' = category_rules
    /\ settings' = settings

\* C20 (as claimed): setTransactionTransfer changes only is_transfer,
\* setTransactionOccasionalIncome only is_occasional_income,
\* setTransactionComment only user_comment and setTransactionInvestment only
\* is_investment of the named transaction, except that setting is_investment
\* to true clears is_transfer; setTransactionInvestment(t, false) leaves
\* is_transfer as it was; nothing else in the store is changed.
C20_SingleFieldUpdate ==
    [][ \A id \in EditedIds :
          /\ call'.op = "setTransactionTransfer" =>
                \A flag \in BOOLEAN :
                   setTransactionTransfer(id, flag) => ClaimSingleField(id, { "is_transfer" })
          /\ call'.op = "setTransactionOccasionalIncome" =>
                \A flag \in BOOLEAN :
                   setTransactionOccasionalIncome(id, flag) =>
                      ClaimSingleField(id, { "is_occasional_income" })
          /\ call'.op = "setTransactionComment" =>
                \A comment \in { EMPTY, "note" } :
                   setTransactionComment(id, comment) =>
                      ClaimSingleField(id, { "user_comment" })
          /\ call'.op = "setTransactionInvestment" =>
                /\ setTransactionInvestment(id, TRUE) =>
                      /\ ClaimSingleField(id, { "is_investment", "is_transfer" })
                      /\ \A n \in transactions' : n.id = id => n.is_transfer = 0
                /\ setTransactionInvestment(id, FALSE) =>
                      ClaimSingleField(id, { "is_investment" }) ]_vars

-----------------------------------------------------------------------------
(* The presentation layer's mutation requests and the server's routes *)

\* The POST routes of the server that mutate one transaction.
MUTATION_ROUTES ==
    { "/api/transactions/category", "/api/transactions/transfer",
      "/api/transactions/investment", "/api/transactions/comment" }

OCCASIONAL_INCOME_PATH == "/api/transactions/occasional-income"

\* fetch(path, {method: 'POST', body: {transactionId, ...}}) in flight.
Request(path, transactionId, flag, comment) ==
    [op |-> "request", path |-> path, transactionId |-> transactionId,
     flag |-> flag, comment |-> comment]

InitServer ==
    /\ transactions =
         { NewRow("t1", <<2024, 1, 15>>, 100, <<"bit">>, EMPTY, "Hapoalim", 0, 1),
           NewRow("t2", <<2024, 1, 20>>, -50, <<"super">>, EMPTY, "Hapoalim", 0, 1) }
    /\ categories = {}
    /\ category_rules = {}
    /\ settings = {}
    /\ call = NoCall
    /\ ret = UNDEFINED

\* The page awaits each fetch before it sends the next one.
Awaiting == call.op = "request"

Send(request) ==
    /\ ~Awaiting
    /\ call' = request
    /\ ret' = UNDEFINED
    /\ ReadOnly

apiToggleTransfer ==
    \E t \in transactions, flag \in BOOLEAN :
        Send(Request("/api/transactions/transfer", t.id, flag, EMPTY))

apiToggleInvestment ==
    \E t \in transactions, flag \in BOOLEAN :
        Send(Request("/api/transactions/investment", t.id, flag, EMPTY))

apiSetComment ==
    \E t \in transactions, comment \in { EMPTY, "note" } :
        Send(Request("/api/transactions/comment", t.id, FALSE, comment))

\* toggleOccasionalIncome: apiToggleOccasionalIncome(txnId, !currentState)
apiToggleOccasionalIncome ==
    \E t \in transactions :
        Send(Request(OCCASIONAL_INCOME_PATH, t.id, t.is_occasional_income = 0, EMPTY))

\* No route matches the request: the server answers 404 and touches nothing.
NotFound ==
    /\ call' = Called("404")
    /\ ret' = UNDEFINED
    /\ ReadOnly

\* The server dispatches the request in flight to the route of its path.
Serve ==
    /\ Awaiting
    /\ IF call.path \notin MUTATION_ROUTES THEN NotFound
       ELSE IF call.path = "/api/transactions/transfer"
       THEN setTransactionTransfer(call.transactionId, call.flag)
       ELSE IF call.path = "/api/transactions/investment"
       THEN setTransactionInvestment(call.transactionId, call.flag)
       ELSE IF call.path = "/api/transactions/comment"
       THEN setTransactionComment(call.transactionId, call.comment)
       ELSE setTransactionCategory(call.transactionId, NULL)

NextServer ==
    \/ apiToggleTransfer \/ apiToggleInvestment \/ apiSetComment
    \/ apiToggleOccasionalIncome \/ Serve

SpecServer == InitServer /\ [][NextServer]_vars

\* The server answers every request it received.
FairSpecServer == SpecServer /\ WF_vars(Serve)

\* C21 (as claimed): a request of the page to toggle occasional income on a
\* transaction leads to the transaction's is_occasional_income having the
\* requested value.
C21_OccasionalIncomeServed ==
    \A id \in { "t1", "t2" }, flag \in BOOLEAN :
       (/\ Awaiting
        /\ call.path = OCCASIONAL_INCOME_PATH
        /\ call.transactionId = id
        /\ call.flag = flag)
          ~> (\E t \in transactions :
                 t.id = id /\ t.is_occasional_income = (IF flag THEN 1 ELSE 0))

-----------------------------------------------------------------------------
(* Excluding a whole month *)

\* A purchase of January, an income of early February, and the card's lump
\* sum of early February, which belongs to January.
ExcludeRecords ==
    { RawRecord(<<2024, 1, 15>>, -50, <<"super">>, EMPTY),
      RawRecord(<<2024, 2, 2>>, 100, <<"bit">>, EMPTY),
      RawRecord(<<2024, 2, 2>>, -50, <<"kartisei", "ashrai", "l", "CAL">>, EMPTY) }

ExcludeUpsert ==
    \E id \in TxnIds, raw \in ExcludeRecords :
        upsertTransactions(<< WithTxnId(raw, id) >>, "Hapoalim", 1)

NextExclude == ExcludeUpsert \/ SetTransfer \/ SetInvestment \/ ExcludeMonth

SpecExclude == Init /\ [][NextExclude]_vars

\* C22: excludeAllInMonth(year, month) marks as transfer every transaction of
\* the logical month and no other, and returns how many of them were not
\* transfers before; after it the month's summary has income, expenses,
\* investmentTotal and transactionCount 0, and a second call would count 0.
C22_ExcludeMonth ==
    [][ call'.op = "excludeAllInMonth" =>
          \A month \in { 1, 2 } :
             excludeAllInMonth(2024, month) =>
                LET inMonth == { t \in transactions : ClaimLogicalMonth(t) = <<2024, month>> }
                IN  /\ transactions' =
                         { IF t \in inMonth THEN [t EXCEPT !.is_transfer = 1] ELSE t :
                             t \in transactions }
                    /\ ret' = Cardinality({ t \in inMonth : t.is_transfer = 0 })
                    /\ getMonthlySummary(2024, month)'.income = 0
                    /\ getMonthlySummary(2024, month)'.expenses = 0
                    /\ getMonthlySummary(2024, month)'.investmentTotal = 0
                    /\ getMonthlySummary(2024, month)'.transactionCount = 0
                    /\ { t \in getTransactionsByIsraeliMonth(2024, month)' :
                           t.is_transfer = 0 } = {} ]_vars

\* Right after January was excluded: the purchase of January (an investment
\* before) and the card's lump sum of early February are transfers, counted 2.
C22_Witness ==
    /\ call.op = "excludeAllInMonth"
    /\ ret = 2
    /\ \E t \in transactions :
          /\ t.date = <<2024, 1, 15>>
          /\ t.is_investment = 1
          /\ t.is_transfer = 1
    /\ \E t \in transactions :
          /\ t.date = <<2024, 2, 2>>
          /\ t.description = <<"kartisei", "ashrai", "l", "CAL">>
          /\ t.is_transfer = 1

-----------------------------------------------------------------------------
(* The months that have data *)

\* 'YYYY-MM' texts, modelled by <<y, m>>, in the order of the texts.
MonthTextLE(a, b) == a[1] < b[1] \/ (a[1] = b[1] /\ a[2] <= b[2])

priorIsraeliMonth_NoWrap(year, month) ==
    IF month = 1 THEN <<year, 12>> ELSE <<year, month - 1>>

\* The month before, as the loop adds it: `${year - 1}-12` before a January.
priorIsraeliMonth(year, month) ==
    IF month = 1 THEN <<year - 1, 12>> ELSE <<year, month - 1>>

RECURSIVE sortReverse(_)
\* Array.from(set).sort().reverse()
sortReverse(S) ==
    IF S = {} THEN <<>>
    ELSE LET top == CHOOSE x \in S : \A y \in S : MonthTextLE(y, x)
         IN  <<top>> \o sortReverse(S \ {top})

getAvailableMonths ==
    LET rows == { <<getFullYear(t.date), getMonth1(t.date)>> : t \in transactions }
        israeliMonths ==
            rows \cup { priorIsraeliMonth(row[1], row[2]) : row \in rows }
    IN  sortReverse(israeliMonths)

CallGetAvailableMonths ==
    /\ Idle
    /\ call' = [NoCall EXCEPT !.op = "getAvailableMonths"]
    /\ ret' = getAvailableMonths
    /\ ReadOnly

NextMonths == CallGetAvailableMonths \/ Respond

SpecMonths == InitAttribution /\ [][NextMonths]_vars

\* C23: getAvailableMonths lists every logical month for which
\* getTransactionsByIsraeliMonth returns a transaction, lists no month twice,
\* and lists the months from the latest to the earliest, also across the
\* turn of a year.
C23_AvailableMonths ==
    call.op = "getAvailableMonths" =>
        /\ \A ym \in AllYears \X Months :
              getTransactionsByIsraeliMonth(ym[1], ym[2]) # {} =>
                 \E i \in 1..Len(ret) : ret[i] = ym
        /\ \A i, j \in 1..Len(ret) :
              i < j => ret[i][1] * 12 + ret[i][2] > ret[j][1] * 12 + ret[j][2]

\* The months listed for a store whose only rows are a salary of early
\* January, which belongs to December, and a purchase of February.
C23_Witness ==
    /\ call.op = "getAvailableMonths"
    /\ ret = << <<2024, 2>>, <<2024, 1>>, <<2023, 12>> >>
    /\ getTransactionsByIsraeliMonth(2024, 1) = {}
    /\ getTransactionsByIsraeliMonth(2023, 12) # {}

-----------------------------------------------------------------------------
(* The server's routes that take a year and a month *)

\* A salary of early January 2025 and a purchase of December 2024.
InitRoutes ==
    /\ transactions =
         { NewRow("t1", <<2025, 1, 2>>, 100, <<"maskoret">>, EMPTY, "Hapoalim", 0, 1),
           NewRow("t2", <<2024, 12, 15>>, -50, <<"super">>, EMPTY, "Hapoalim", 0, 1) }
    /\ categories = {}
    /\ category_rules = {}
    /\ settings = {}
    /\ call = NoCall
    /\ ret = UNDEFINED

\* res.status(400).json({error})
BadRequest ==
    /\ call' = Called("400")
    /\ ret' = UNDEFINED
    /\ ReadOnly

\* The answer of a GET route that reached the storage layer.
Answered(route, year, month, value) ==
    /\ call' = [NoCall EXCEPT !.op = route, !.year = year, !.month = month]
    /\ ret' = value
    /\ ReadOnly

\* GET /api/summary/:year/:month
getSummaryRoute(year, month) ==
    IF month < 1 \/ month > 12 THEN BadRequest
    ELSE Answered("/api/summary", year, month, getMonthlySummary(year, month))

\* GET /api/category-averages/:year/:month
getCategoryAveragesRoute(year, month) ==
    Answered("/api/category-averages", year, month, getAllCategoryAverages(year, month))

\* GET /api/savings-goal/:year/:month
getSavingsGoalRoute(year, month) ==
    Answered("/api/savings-goal", year, month, getSavingsGoal(year, month))

\* GET /api/available-budget/:year/:month
getAvailableBudgetRoute(year, month) ==
    Answered("/api/available-budget", year, month, calculateAvailableBudget(year, month))

\* POST /api/exclude-month
postExcludeMonthRoute(year, month) ==
    IF year = 0 \/ month = 0 THEN BadRequest
    ELSE /\ call' = Called("excludeAllInMonth")
         /\ excludeAllInMonth(year, month)

\* Months a client may send: two of the calendar and two outside it.
RouteMonths == { 0, 1, 12, 13 }

RouteSummary == \E month \in RouteMonths : getSummaryRoute(2024, month)

RouteCategoryAverages == \E month \in RouteMonths : getCategoryAveragesRoute(2024, month)

RouteSavingsGoal == \E month \in RouteMonths : getSavingsGoalRoute(2024, month)

RouteAvailableBudget == \E month \in RouteMonths : getAvailableBudgetRoute(2024, month)

RouteExcludeMonth == \E month \in RouteMonths : postExcludeMonthRoute(2024, month)

NextRoutes ==
    \/ RouteSummary \/ RouteCategoryAverages \/ RouteSavingsGoal
    \/ RouteAvailableBudget \/ RouteExcludeMonth \/ SetTransfer \/ SetInvestment

SpecRoutes == InitRoutes /\ [][NextRoutes]_vars

\* C24 (as claimed): the routes of the monthly summary, the category
\* averages, the available budget, the month's savings goal and exclude-month
\* answer a month outside 1..12 with an error and leave the store untouched.
C24_ValidationFirst ==
    [][ \A month \in RouteMonths \ (1..12) :
          (\/ getSummaryRoute(2024, month)
           \/ getCategoryAveragesRoute(2024, month)
           \/ getSavingsGoalRoute(2024, month)
           \/ getAvailableBudgetRoute(2024, month)
           \/ postExcludeMonthRoute(2024, month))
             => /\ call'.op = "400"
                /\ transactions' = transactions ]_vars

-----------------------------------------------------------------------------
(* Mutations that name an identifier the store does not hold *)

\* The setters of one transaction, called with an id no ingestion stores.
MutateUnknown ==
    \E flag \in BOOLEAN :
        \/ setTransactionTransfer("t3", flag)
        \/ setTransactionInvestment("t3", flag)
        \/ setTransactionOccasionalIncome("t3", flag)
        \/ setTransactionComment("t3", "note")

NextUnknown == CategoryIngest \/ SetCategory \/ DeleteCategory \/ MutateUnknown

SpecUnknown == InitRules /\ [][NextUnknown]_vars

\* The step left transactions, rules and categories as they were and its
\* call returned without an error.
ClaimNoOp ==
    /\ transactions' = transactions
    /\ category_rules' = category_rules
    /\ categories' = categories
    /\ ret' = UNDEFINED

\* C25 (as claimed): setTransactionCategory, setTransactionTransfer,
\* setTransactionInvestment, setTransactionOccasionalIncome and
\* setTransactionComment with an unknown transaction id,
\* setTransactionCategory with an unknown category id, and deleteCategory
\* with an unknown category id leave transactions, rules and categories
\* unchanged and raise no error.
C25_UnknownIdNoOp ==
    [][ LET stored == { t.id : t \in transactions }
            known  == { c.id : c \in categories }
        IN  /\ call'.op = "setTransactionCategory" =>
                 \A id \in RuleIds, c \in RuleCategoryIds :
                    ((id \notin stored \/ c \notin known \cup { NULL })
                        /\ setTransactionCategory(id, c)) => ClaimNoOp
            /\ call'.op = "deleteCategory" =>
                 \A c \in StoredCategoryIds \ known : deleteCategory(c) => ClaimNoOp
            /\ call'.op \in { "setTransactionTransfer", "setTransactionInvestment",
                              "setTransactionOccasionalIncome", "setTransactionComment" } =>
                 \A id \in RuleIds \ stored, flag \in BOOLEAN :
                    (\/ setTransactionTransfer(id, flag)
                     \/ setTransactionInvestment(id, flag)
                     \/ setTransactionOccasionalIncome(id, flag)
                     \/ setTransactionComment(id, "note")) => ClaimNoOp ]_vars

(***************************************************************************)
(* Category names: the UNIQUE constraint on categories.name under any      *)
(* sequence of createCategory and deleteCategory.                          *)
(***************************************************************************)
NewCategoryIds == { "c1", "c2", "c3", "c4" }

CategoryNames == { "food", "fun", "pets" }

CreateCategory ==
    \E id \in NewCategoryIds, name \in CategoryNames : createCategory(id, name)

DeleteNamed == \E id \in NewCategoryIds : deleteCategory(id)

NextNames == CreateCategory \/ DeleteNamed

SpecNames == InitRules /\ [][NextNames]_vars

NamesUnique == \A c, d \in categories : c.name = d.name => c = d

\* C26: category names are unique in every reachable state: a createCategory
\* that returns a row used a name no category had, one that reuses a name
\* throws and leaves the category table as it was, and no sequence of
\* createCategory and deleteCategory stores two categories under one name.
C26_UniqueNames ==
    /\ NamesUnique
    /\ [][ /\ NamesUnique'
           /\ call'.op = "createCategory" =>
                IF ClaimThrew(ret')
                THEN categories' = categories
                ELSE /\ ret'.name \notin { c.name : c \in categories }
                     /\ categories' = categories \cup { ret' } ]_vars

C26_Witness ==
    /\ call.op = "createCategory"
    /\ ClaimThrew(ret)
    /\ { c.name : c \in categories } = CategoryNames
    /\ \E c \in categories : c.id = "c1" /\ c.name = "pets"

(***************************************************************************)
(* The yearly summary against the twelve monthly summaries of the year.    *)
(***************************************************************************)
MaxAgreeTxns == 2

AgreeRows ==
    { FlaggedRow(d, k[1], k[2], NULL, tr, inv, 0) :
        d \in { <<2024, 1, 2>>, <<2024, 2, 2>>, <<2024, 12, 15>>, <<2025, 1, 2>>,
                <<2025, 1, 5>> },
        k \in { <<70, <<"maskoret">> >>, <<-50, <<"viza">> >>, <<-50, <<"super">> >> },
        tr \in { 0, 1 }, inv \in { 0, 1 } }

AgreeRowList == SeqOfSet(AgreeRows)

InitAgree ==
    /\ DrawnStore(AgreeRowList, MaxAgreeTxns)
    /\ categories = {}
    /\ category_rules = {}
    /\ settings = {}
    /\ call = NoCall
    /\ ret = UNDEFINED

AgreeQuery == CallGetYearToDateSummary(2023..2025)

NextAgree == AgreeQuery \/ Respond

SpecAgree == InitAgree /\ [][NextAgree]_vars

ClaimMonthlyIncome(year) ==
    SumSeq([month \in 1..12 |-> getMonthlySummary(year, month).income])

ClaimMonthlyExpenses(year) ==
    SumSeq([month \in 1..12 |-> getMonthlySummary(year, month).expenses])

ClaimMonthlyInvestmentTotal(year) ==
    SumSeq([month \in 1..12 |-> getMonthlySummary(year, month).investmentTotal])

ClaimMonthlyCount(year) ==
    SumSeq([month \in 1..12 |-> getMonthlySummary(year, month).transactionCount])

ClaimMonthlyInvestments(year) ==
    SumSeq([month \in 1..12 |->
                Cardinality(getMonthlySummary(year, month).investments)])

\* C27 as stated: the yearly income, expenses, investmentTotal and
\* transactionCount each equal the sum of the twelve monthly values.
C27_YearEqualsMonths ==
    call.op = "getYearToDateSummary" =>
        /\ ret.income = ClaimMonthlyIncome(call.year)
        /\ ret.expenses = ClaimMonthlyExpenses(call.year)
        /\ ret.investmentTotal = ClaimMonthlyInvestmentTotal(call.year)
        /\ ret.transactionCount = ClaimMonthlyCount(call.year)

\* C27: the yearly income, expenses and investmentTotal equal the sums of the
\* twelve monthly values, and the yearly transactionCount equals the sum of the
\* twelve monthly transactionCount values plus the number of investments in
\* the twelve monthly investment lists.
C27_YearAgreesWithMonths ==
    call.op = "getYearToDateSummary" =>
        /\ ret.income = ClaimMonthlyIncome(call.year)
        /\ ret.expenses = ClaimMonthlyExpenses(call.year)
        /\ ret.investmentTotal = ClaimMonthlyInvestmentTotal(call.year)
        /\ ret.transactionCount =
              ClaimMonthlyCount(call.year) + ClaimMonthlyInvestments(call.year)

\* The summary of 2024 over a store holding an investment of 2024 and a salary
\* paid on 2 January 2025, which December 2024 and the year 2024 both count.
C27_Witness ==
    /\ call.op = "getYearToDateSummary"
    /\ call.year = 2024
    /\ ret.investmentTotal > 0
    /\ ret.income = 70
    /\ ret.transactionCount = 2
    /\ \E t \in transactions : t.date = <<2025, 1, 2>> /\ t.amount = 70
    /\ getMonthlySummary(2024, 12).income = 70

(***************************************************************************)
(* The projected income against the income received.                       *)
(***************************************************************************)

\* C28: calculateAvailableBudget returns an expectedIncome that is at least
\* actualIncome, which is the income of the month's summary, and
\* actualRegularIncome + actualOccasionalIncome = actualIncome.
C28_ExpectedCoversActual ==
    call.op = "calculateAvailableBudget" =>
        /\ ret.actualIncome = getMonthlySummary(call.year, call.month).income
        /\ ret.expectedIncome >= ret.actualIncome
        /\ ret.actualRegularIncome + ret.actualOccasionalIncome = ret.actualIncome

\* A month with a regular and an occasional income under an override above
\* the regular income.
C28_Witness ==
    /\ call.op = "calculateAvailableBudget"
    /\ ret.actualRegularIncome = 100
    /\ ret.actualOccasionalIncome = 60
    /\ ret.actualIncome = 160
    /\ ret.userExpectedIncome = 150
    /\ ret.expectedIncome = 210

(***************************************************************************)
(* Referential integrity of transactions.category_id and of                *)
(* category_rules.category_id under the category operations.               *)
(***************************************************************************)
RecreateCategory ==
    \E id \in StoredCategoryIds, name \in { "food", "fun" } : createCategory(id, name)

NextIntegrity ==
    CategoryIngest \/ SetCategory \/ DeleteCategory \/ RecreateCategory \/ ApplyRules

SpecIntegrity == InitRules /\ [][NextIntegrity]_vars

\* C29: in every reachable state every transaction's category_id is null or
\* the id of a stored category, and every rule's category_id is the id of a
\* stored category.
C29_ReferentialIntegrity ==
    LET known == { c.id : c \in categories }
    IN  /\ \A t \in transactions : t.category_id \in known \cup { NULL }
        /\ \A r \in category_rules : r.category_id \in known

(***************************************************************************)
(* The scraper process running applyCategoryRules next to the server.      *)
(* The two are separate processes on one database file and neither wraps   *)
(* its statements in a transaction, so the statements of applyCategoryRules *)
(* interleave with server calls.  Here call is the scraper's call in       *)
(* flight with its local variables (the rules it has read and not yet      *)
(* applied, and the count applied), and ret is what the last completed     *)
(* call returned.                                                          *)
(***************************************************************************)
InitRace ==
    /\ transactions =
         { [FlaggedRow(<<2024, 1, 15>>, -50, <<"bit">>, "c1", 0, 0, 0) EXCEPT !.id = "t1"],
           [FlaggedRow(<<2024, 1, 16>>, -50, <<"bit">>, NULL, 0, 0, 0) EXCEPT !.id = "t2"],
           [FlaggedRow(<<2024, 1, 17>>, -50, <<"super">>, "c2", 0, 0, 0) EXCEPT !.id = "t3"] }
    /\ categories = { CategoryRow("c1", "food"), CategoryRow("c2", "fun") }
    /\ category_rules =
         { [description_pattern |-> <<"bit">>, category_id |-> "c1"],
           [description_pattern |-> <<"super">>, category_id |-> "c2"] }
    /\ settings = {}
    /\ call = NoCall
    /\ ret = UNDEFINED

Applying == call.op = "applyCategoryRules"

\* const rules = db.prepare('SELECT * FROM category_rules').all(); applied = 0
SelectRules ==
    /\ Idle
    /\ call' = [op |-> "applyCategoryRules", rules |-> category_rules, applied |-> 0]
    /\ UNCHANGED <<transactions, categories, category_rules, settings, ret>>

\* One iteration of the loop: the UPDATE of one rule of the list read.
UpdateByRule ==
    /\ Applying
    /\ \E rule \in call.rules :
          /\ transactions' =
               cascadeRule(transactions, rule.description_pattern, rule.category_id)
          /\ call' = [call EXCEPT
                        !.rules = @ \ { rule },
                        !.applied = @ + Cardinality(
                            { row \in transactions :
                                row.description = rule.description_pattern
                                   /\ isUncategorized(row) })]
    /\ UNCHANGED <<categories, category_rules, settings, ret>>

\* return applied
ReturnApplied ==
    /\ Applying
    /\ call.rules = {}
    /\ ret' = call.applied
    /\ call' = NoCall
    /\ UNCHANGED <<transactions, categories, category_rules, settings>>

\* The server serving setTransactionCategory(transactionId, null) between two
\* statements of the scraper.
ServerClearCategory ==
    \E transactionId \in RuleIds :
        LET updated == setColumn(transactions, transactionId, "category_id", NULL)
            found   == \E row \in updated : row.id = transactionId
            txn     == CHOOSE row \in updated : row.id = transactionId
        IN  /\ transactions' = updated
            /\ category_rules' =
                  IF found /\ txn.description # <<>>
                  THEN deleteRule(category_rules, txn.description)
                  ELSE category_rules
            /\ ret' = UNDEFINED
            /\ UNCHANGED <<categories, settings, call>>

\* The server serving deleteCategory(id) between two statements of the scraper.
ServerDeleteCategory ==
    \E id \in StoredCategoryIds :
        /\ transactions' =
             { IF row.category_id = id THEN [row EXCEPT !.category_id = NULL] ELSE row :
                 row \in transactions }
        /\ category_rules' = { r \in category_rules : r.category_id # id }
        /\ categories' = { c \in categories : c.id # id }
        /\ ret' = UNDEFINED
        /\ UNCHANGED <<settings, call>>

NextRace ==
    \/ SelectRules
    \/ UpdateByRule
    \/ ReturnApplied
    \/ ServerClearCategory
    \/ ServerDeleteCategory

SpecRace == InitRace /\ [][NextRace]_vars

\* C30: a rule removed by a server call is never applied afterwards: every
\* UPDATE of applyCategoryRules that changes a transaction is made for a rule
\* the rule table still holds when the UPDATE runs.
C30_NoStaleRule ==
    [][ (Applying /\ call'.op = "applyCategoryRules" /\ call'.rules # call.rules) =>
            \A rule \in call.rules \ call'.rules :
                rule \in category_rules \/ transactions' = transactions ]_vars

====
